---------------------------- MODULE Spec2Model ----------------------------
(***************************************************************************)
(* Drawback Chess: the handicap rules, the position evaluator, the two     *)
(* move searches, the position fingerprint and the host's turn loop.       *)
(*                                                                         *)
(* Squares are numbered rank * 8 + file, a1 = 0 .. h8 = 63, as both        *)
(* square_to_index functions of the source do.  The position primitive     *)
(* (shakmaty::Chess) is modelled by the rules of chess it implements.      *)
(* Floating point values are kept as exact integers scaled by the          *)
(* denominator the code divides by (24 for the game phase, 80 for the      *)
(* playout score).                                                         *)
(***************************************************************************)
EXTENDS Integers, Sequences, FiniteSets, TLC

VARIABLES
    flt,    \* rule-filter call: rule, moves, rng_outcome, result
    evl,    \* evaluator call: position, results
    hsh,    \* fingerprint call: game state, results
    srch,   \* search call: context, tree, completed iterations, result
    game,   \* host: game state, turn state, pending events, search task
    cfg,    \* configuration call: drawback setting, results
    apl,    \* apply_move call: state before, turn state, events, state after
    pc      \* which step has run

vars == <<flt, evl, hsh, srch, game, cfg, apl, pc>>

----------------------------------------------------------------------------
(* Arithmetic helpers *)

Abs(x) == IF x < 0 THEN -x ELSE x

Sgn(x) == IF x < 0 THEN -1 ELSE IF x > 0 THEN 1 ELSE 0

Max(a, b) == IF a >= b THEN a ELSE b

Min(a, b) == IF a <= b THEN a ELSE b

\* Rust `as i32` on a float: truncation toward zero.  n / d with d > 0.
TruncDiv(n, d) == IF n >= 0 THEN n \div d ELSE -((-n) \div d)

----------------------------------------------------------------------------
(* Board geometry *)

Squares == 0..63

File(s) == s % 8

Rank(s) == s \div 8

Sq(f, r) == r * 8 + f

Roles == {"Pawn", "Knight", "Bishop", "Rook", "Queen", "King"}

Colors == {"White", "Black"}

Other(c) == IF c = "White" THEN "Black" ELSE "White"

NoPiece == [role |-> "None", color |-> "None"]

Piece(r, c) == [role |-> r, color |-> c]

EmptyBoard == [s \in Squares |-> NoPiece]

\* Place a set of <<square, role, color>> triples on an empty board.
BoardOf(placed) ==
    [s \in Squares |->
        IF \E p \in placed : p[1] = s
        THEN LET p == CHOOSE q \in placed : q[1] = s IN Piece(p[2], p[3])
        ELSE NoPiece]

BackRank == <<"Rook", "Knight", "Bishop", "Queen", "King", "Bishop", "Knight", "Rook">>

\* STANDARD_FEN
StandardBoard ==
    [s \in Squares |->
        CASE Rank(s) = 0 -> Piece(BackRank[File(s) + 1], "White")
          [] Rank(s) = 1 -> Piece("Pawn", "White")
          [] Rank(s) = 6 -> Piece("Pawn", "Black")
          [] Rank(s) = 7 -> Piece(BackRank[File(s) + 1], "Black")
          [] OTHER -> NoPiece]

NoSquare == 64

\* A position: placement, side to move, castling rights, en-passant square.
MkPosition(b, t, c, ep) == [board |-> b, turn |-> t, castles |-> c, ep_square |-> ep]

StandardPosition == MkPosition(StandardBoard, "White", {"WK", "WQ", "BK", "BQ"}, NoSquare)

----------------------------------------------------------------------------
(* shakmaty::Move.  Castle keeps the king square in `from` and the rook    *)
(* square in `to`, as Move::from() and Move::to() return them.             *)

NormalMove(r, f, t, cap, promo) ==
    [kind |-> "Normal", role |-> r, from |-> f, to |-> t, capture |-> cap, promotion |-> promo]

EnPassantMove(f, t) ==
    [kind |-> "EnPassant", role |-> "Pawn", from |-> f, to |-> t, capture |-> "Pawn", promotion |-> "None"]

CastleMove(king, rook) ==
    [kind |-> "Castle", role |-> "King", from |-> king, to |-> rook, capture |-> "None", promotion |-> "None"]

----------------------------------------------------------------------------
(* Attacks *)

ClearPath(b, from, to) ==
    LET dr == Rank(to) - Rank(from)
        df == File(to) - File(from)
        n == Max(Abs(dr), Abs(df))
        step == Sgn(dr) * 8 + Sgn(df)
    IN \A k \in 1..(n - 1) : b[from + k * step].role = "None"

\* The piece on `from` attacks `to`.
Attacks(b, from, to) ==
    LET p == b[from]
        dr == Rank(to) - Rank(from)
        df == File(to) - File(from)
        straight == (dr = 0) # (df = 0)
        diagonal == Abs(dr) = Abs(df) /\ dr # 0
    IN CASE p.role = "Pawn" ->
                Abs(df) = 1 /\ dr = (IF p.color = "White" THEN 1 ELSE -1)
         [] p.role = "Knight" ->
                {Abs(dr), Abs(df)} = {1, 2}
         [] p.role = "King" ->
                Max(Abs(dr), Abs(df)) = 1
         [] p.role = "Rook" ->
                straight /\ ClearPath(b, from, to)
         [] p.role = "Bishop" ->
                diagonal /\ ClearPath(b, from, to)
         [] p.role = "Queen" ->
                (straight \/ diagonal) /\ ClearPath(b, from, to)
         [] OTHER -> FALSE

IsAttacked(b, sq, by) ==
    \E s \in Squares : b[s].color = by /\ Attacks(b, s, sq)

InCheck(b, c) ==
    \E k \in Squares : b[k] = Piece("King", c) /\ IsAttacked(b, k, Other(c))

----------------------------------------------------------------------------
(* Position::play_unchecked *)

CastleRightOf(c, side) == IF c = "White" THEN "W" \o side ELSE "B" \o side

\* The rook's home square of a castling right.
RookHome(right) ==
    CASE right = "WK" -> 7 [] right = "WQ" -> 0 [] right = "BK" -> 63 [] right = "BQ" -> 56

KingHome(c) == IF c = "White" THEN 4 ELSE 60

\* Rights lost when a piece leaves `from` or something lands on `to`.
RightsAfter(castles, b, from, to) ==
    LET mover == b[from]
        lostKing == IF mover.role = "King"
                    THEN {CastleRightOf(mover.color, "K"), CastleRightOf(mover.color, "Q")}
                    ELSE {}
        lostRook == {r \in castles : RookHome(r) = from \/ RookHome(r) = to}
    IN (castles \ lostKing) \ lostRook

play_unchecked(pos, m) ==
    LET b == pos.board
        us == pos.turn
        nb ==
          CASE m.kind = "Normal" ->
                 [b EXCEPT ![m.from] = NoPiece,
                           ![m.to] = IF m.promotion # "None"
                                     THEN Piece(m.promotion, us)
                                     ELSE b[m.from]]
            [] m.kind = "EnPassant" ->
                 [b EXCEPT ![m.from] = NoPiece,
                           ![m.to] = b[m.from],
                           ![Sq(File(m.to), Rank(m.from))] = NoPiece]
            [] m.kind = "Castle" ->
                 LET kingside == m.to > m.from
                     r == Rank(m.from)
                     kt == Sq(IF kingside THEN 6 ELSE 2, r)
                     rt == Sq(IF kingside THEN 5 ELSE 3, r)
                 IN [s \in Squares |->
                        IF s = kt THEN b[m.from]
                        ELSE IF s = rt THEN b[m.to]
                        ELSE IF s = m.from \/ s = m.to THEN NoPiece
                        ELSE b[s]]
        nc == IF m.kind = "Castle"
              THEN pos.castles \ {CastleRightOf(us, "K"), CastleRightOf(us, "Q")}
              ELSE RightsAfter(pos.castles, b, m.from, m.to)
        nep == IF m.kind = "Normal" /\ m.role = "Pawn" /\ Abs(m.to - m.from) = 16
               THEN (m.from + m.to) \div 2
               ELSE NoSquare
    IN MkPosition(nb, Other(us), nc, nep)

----------------------------------------------------------------------------
(* Position::legal_moves *)

PromotionRoles == {"Queen", "Rook", "Bishop", "Knight"}

PawnTargets(pos, from) ==
    LET b == pos.board
        us == pos.turn
        dir == IF us = "White" THEN 8 ELSE -8
        startRank == IF us = "White" THEN 1 ELSE 6
        one == from + dir
        two == from + 2 * dir
        push1 == IF one \in Squares /\ b[one].role = "None" THEN {one} ELSE {}
        push2 == IF push1 # {} /\ Rank(from) = startRank /\ b[two].role = "None"
                 THEN {two} ELSE {}
        caps == {t \in Squares : Attacks(b, from, t) /\ b[t].color = Other(us)}
    IN push1 \cup push2 \cup caps

PawnMoves(pos, from) ==
    LET b == pos.board
        lastRank == IF pos.turn = "White" THEN 7 ELSE 0
        plain == {NormalMove("Pawn", from, t, b[t].role, "None") :
                    t \in {x \in PawnTargets(pos, from) : Rank(x) # lastRank}}
        promo == {NormalMove("Pawn", from, t, b[t].role, pr) :
                    t \in {x \in PawnTargets(pos, from) : Rank(x) = lastRank},
                    pr \in PromotionRoles}
        ep == IF pos.ep_square # NoSquare /\ Attacks(b, from, pos.ep_square)
              THEN {EnPassantMove(from, pos.ep_square)} ELSE {}
    IN plain \cup promo \cup ep

PieceMoves(pos, from) ==
    LET b == pos.board
    IN {NormalMove(b[from].role, from, t, b[t].role, "None") :
          t \in {x \in Squares : Attacks(b, from, x) /\ b[x].color # pos.turn}}

CastleMoves(pos) ==
    LET b == pos.board
        us == pos.turn
        k == KingHome(us)
        ok(side) ==
            LET right == CastleRightOf(us, side)
                rook == RookHome(right)
                kt == IF side = "K" THEN k + 2 ELSE k - 2
            IN /\ right \in pos.castles
               /\ b[k] = Piece("King", us)
               /\ b[rook] = Piece("Rook", us)
               /\ ClearPath(b, k, rook)
               /\ \A s \in Min(k, kt)..Max(k, kt) : ~IsAttacked(b, s, Other(us))
    IN {CastleMove(k, RookHome(CastleRightOf(us, side))) : side \in {s \in {"K", "Q"} : ok(s)}}

PseudoLegalMoves(pos) ==
    UNION {IF pos.board[f].role = "Pawn" THEN PawnMoves(pos, f) ELSE PieceMoves(pos, f) :
             f \in {s \in Squares : pos.board[s].color = pos.turn}}
    \cup CastleMoves(pos)

\* The set of legal moves: the mover's king is not left attacked.
legal_moves(pos) ==
    {m \in PseudoLegalMoves(pos) : ~InCheck(play_unchecked(pos, m).board, pos.turn)}

is_check(pos) == InCheck(pos.board, pos.turn)

is_checkmate(pos) == is_check(pos) /\ legal_moves(pos) = {}

\* shakmaty's has_insufficient_material for one colour.
has_insufficient_material(b, c) ==
    LET us == {s \in Squares : b[s].color = c}
        them == {s \in Squares : b[s].color = Other(c)}
        ofRole(r) == {s \in Squares : b[s].role = r}
        dark == {s \in Squares : (File(s) + Rank(s)) % 2 = 0}
    IN IF us \cap (ofRole("Pawn") \cup ofRole("Rook") \cup ofRole("Queen")) # {}
       THEN FALSE
       ELSE IF us \cap ofRole("Knight") # {}
       THEN Cardinality(us) <= 2 /\ (them \ (ofRole("King") \cup ofRole("Queen"))) = {}
       ELSE IF us \cap ofRole("Bishop") # {}
       THEN /\ (ofRole("Bishop") \cap dark = {} \/ ofRole("Bishop") \ dark = {})
            /\ ofRole("Knight") = {}
            /\ ofRole("Pawn") = {}
       ELSE TRUE

\* Position::outcome: "None" while the game goes on, else the winner or "Draw".
outcome(pos) ==
    IF legal_moves(pos) = {}
    THEN IF is_check(pos) THEN Other(pos.turn) ELSE "Draw"
    ELSE IF has_insufficient_material(pos.board, "White")
            /\ has_insufficient_material(pos.board, "Black")
    THEN "Draw"
    ELSE "None"

----------------------------------------------------------------------------
(* Handicap rules (drawbacks) *)

DrawbackIds == {"None", "NoCastling", "PawnPushOneOnly", "BlockRandomFile"}

\* Option<u8>::None for the per-turn random outcome.
NoOutcome == -1

\* The registry holds a rule for every id but None.
registry_rules == DrawbackIds \ {"None"}

needs_turn_rng(id) == id = "BlockRandomFile"

get_rng_outcomes(id) == IF id = "BlockRandomFile" THEN 8 ELSE 1

\* A resolution in which the index takes precedence over the name.
resolve_drawback_id_IndexFirst(setting) ==
    IF setting.index # <<>>
    THEN CASE setting.index[1] = 1 -> "NoCastling"
           [] setting.index[1] = 2 -> "PawnPushOneOnly"
           [] setting.index[1] = 3 -> "BlockRandomFile"
           [] OTHER -> "None"
    ELSE IF setting.name # <<>>
    THEN CASE setting.name[1] = "No Castling" -> "NoCastling"
           [] setting.name[1] = "Pawns Advance One" -> "PawnPushOneOnly"
           [] setting.name[1] = "Random File Blocked" -> "BlockRandomFile"
           [] OTHER -> "None"
    ELSE "None"

\* GameConfig::resolve_drawback_id (config.rs).  `name` and `index` are
\* options: the empty sequence is None, <<x>> is Some(x).
resolve_drawback_id(setting) ==
    IF setting.name = <<>> /\ setting.index = <<>> THEN "None"
    ELSE IF setting.name # <<>>
    THEN CASE setting.name[1] = "No Castling" -> "NoCastling"
           [] setting.name[1] = "Pawns Advance One" -> "PawnPushOneOnly"
           [] setting.name[1] = "Random File Blocked" -> "BlockRandomFile"
           [] OTHER -> "None"
    ELSE IF setting.index # <<>>
    THEN CASE setting.index[1] = 1 -> "NoCastling"
           [] setting.index[1] = 2 -> "PawnPushOneOnly"
           [] setting.index[1] = 3 -> "BlockRandomFile"
           [] OTHER -> "None"
    ELSE "None"

check_loss_condition(id, pos, moves) == FALSE

\* A filter that also drops en-passant captures.
NoCastling_keeps_NormalOnly(mv) == mv.kind = "Normal"

NoCastling_keeps(mv) == mv.kind # "Castle"

NoCastling_filter(moves, rng_outcome) ==
    SelectSeq(moves, NoCastling_keeps)

PawnPushOneOnly_keeps(mv) ==
    IF mv.kind = "Normal"
    THEN IF mv.role = "Pawn"
         THEN Abs(Rank(mv.to) - Rank(mv.from)) # 2
         ELSE TRUE
    ELSE TRUE

PawnPushOneOnly_filter(moves, rng_outcome) ==
    SelectSeq(moves, PawnPushOneOnly_keeps)

\* A filter that tests the file the move starts from.
BlockRandomFile_filter_FromFile(moves, rng_outcome) ==
    IF rng_outcome # NoOutcome /\ rng_outcome < 8
    THEN LET keeps(mv) == File(mv.from) # rng_outcome
         IN SelectSeq(moves, keeps)
    ELSE moves

\* A filter that wraps an outcome past the last file around.
BlockRandomFile_filter_Wrapped(moves, rng_outcome) ==
    IF rng_outcome # NoOutcome
    THEN LET keeps(mv) == File(mv.to) # rng_outcome % 8
         IN SelectSeq(moves, keeps)
    ELSE moves

BlockRandomFile_filter(moves, rng_outcome) ==
    IF rng_outcome # NoOutcome
    THEN IF rng_outcome < 8
         THEN LET keeps(mv) == File(mv.to) # rng_outcome
              IN SelectSeq(moves, keeps)
         ELSE moves
    ELSE moves

\* DrawbackRule::filter_pseudo_legal_moves, dispatched on the rule.
filter_pseudo_legal_moves(id, moves, rng_outcome) ==
    CASE id = "NoCastling" -> NoCastling_filter(moves, rng_outcome)
      [] id = "PawnPushOneOnly" -> PawnPushOneOnly_filter(moves, rng_outcome)
      [] id = "BlockRandomFile" -> BlockRandomFile_filter(moves, rng_outcome)

----------------------------------------------------------------------------
(* Position evaluator (ai/evaluation.rs) *)

RoleIdx(r) ==
    CASE r = "Pawn" -> 0 [] r = "Knight" -> 1 [] r = "Bishop" -> 2
      [] r = "Rook" -> 3 [] r = "Queen" -> 4 [] r = "King" -> 5

\* Base piece values, <<midgame, endgame>>, indexed by role.
PIECE_VALUES ==
    << <<94, 100>>, <<337, 281>>, <<365, 297>>, <<479, 512>>, <<1025, 929>>, <<10000, 10000>> >>

PIECE_PHASE_VALUES == <<0, 1, 1, 2, 4, 0>>

MAX_PHASE == 24

MG_PAWN_PST ==
    <<    0,    0,    0,    0,    0,    0,    0,    0,
         50,   50,   50,   50,   50,   50,   50,   50,
         10,   10,   20,   35,   35,   20,   10,   10,
         10,   15,   30,   70,   70,   30,   15,   10,
          5,   10,   25,   55,   55,   25,   10,    5,
          5,    5,    5,    0,    0,    5,    5,    5,
          0,    0,    0,  -30,  -30,    0,    0,    0,
          0,    0,    0,    0,    0,    0,    0,    0 >>

MG_KNIGHT_PST ==
    <<  -80,  -50,  -30,  -30,  -30,  -30,  -50,  -80,
        -50,  -20,    0,    0,    0,    0,  -20,  -50,
        -30,    0,   15,   20,   20,   15,    0,  -30,
        -30,    5,   20,   25,   25,   20,    5,  -30,
        -30,    0,   15,   20,   20,   15,    0,  -30,
        -30,    5,   15,   15,   15,   15,    5,  -30,
        -50,  -20,    0,    5,    5,    0,  -20,  -50,
        -80,  -50,  -30,  -30,  -30,  -30,  -50,  -80 >>

MG_BISHOP_PST ==
    <<  -20,  -10,  -10,  -10,  -10,  -10,  -10,  -20,
        -10,    0,    0,    0,    0,    0,    0,  -10,
        -10,    0,    5,   10,   10,    5,    0,  -10,
        -10,    5,    5,   10,   10,    5,    5,  -10,
        -10,    0,   10,   10,   10,   10,    0,  -10,
        -10,   10,   10,   10,   10,   10,   10,  -10,
        -10,   15,    0,    0,    0,    0,   15,  -10,
        -20,  -10,  -10,  -10,  -10,  -10,  -10,  -20 >>

MG_ROOK_PST ==
    <<   40,   40,   40,    0,    0,   40,   40,   40,
          5,   15,   15,   50,   50,   15,   50,    5,
          5,    0,    0,    0,    0,    0,    0,    5,
          5,    0,    0,    0,    0,    0,    0,    5,
          5,    0,    0,    0,    0,    0,    0,    5,
          5,    0,    0,    0,    0,    0,    0,    5,
          5,    0,    0,    0,    0,    0,    0,    5,
          0,   -5,    5,    5,    5,   10,   -5,    0 >>

MG_QUEEN_PST ==
    <<  -20,  -10,  -10,   -5,   -5,  -10,  -10,  -20,
        -10,    0,    0,    0,    0,    0,    0,  -10,
        -10,    0,    5,    5,    5,    5,    0,  -10,
         -5,    0,    5,    5,    5,    5,    0,   -5,
          0,    0,    5,    5,    5,    5,    0,   -5,
        -10,    5,    5,    5,    5,    5,    0,  -10,
        -10,    0,    5,   -5,   -5,    0,    0,  -10,
        -20,  -10,  -10,   -2,   -5,  -10,  -10,  -20 >>

MG_KING_PST ==
    << -120, -120, -120, -120, -120, -120, -120, -120,
       -100, -100, -100, -100, -100, -100, -100, -100,
        -80,  -80,  -80,  -80,  -80,  -80,  -80,  -80,
        -70,  -70,  -70,  -70,  -70,  -70,  -70,  -70,
        -60,  -60,  -60,  -60,  -60,  -60,  -60,  -60,
        -40,  -40,  -40,  -40,  -40,  -40,  -40,  -40,
          0,    0,  -10,  -30,  -30,  -10,    0,    0,
         20,   50,   10,    0,    0,   10,   50,   20 >>

EG_PAWN_PST ==
    <<    0,    0,    0,    0,    0,    0,    0,    0,
        400,  400,  400,  400,  400,  400,  400,  400,
         50,   55,   50,   50,   50,   50,   55,   50,
         30,   35,   30,   30,   30,   30,   35,   30,
         25,   20,   20,   20,   20,   20,   20,   25,
         15,   10,   10,   10,   10,   10,   10,   15,
         10,   10,   10,   10,   10,   10,   10,   10,
          0,    0,    0,    0,    0,    0,    0,    0 >>

EG_KNIGHT_PST ==
    <<  -50,  -40,  -30,  -30,  -30,  -30,  -40,  -50,
        -40,  -20,    0,    0,    0,    0,  -20,  -40,
        -30,    0,   10,   15,   15,   10,    0,  -30,
        -30,   10,   15,   20,   20,   15,   10,  -30,
        -30,    0,   15,   20,   20,   15,    0,  -30,
        -30,    5,   15,   15,   15,   15,    5,  -30,
        -40,  -20,    0,    5,    5,    0,  -20,  -40,
        -50,  -40,  -30,  -30,  -30,  -30,  -40,  -50 >>

EG_BISHOP_PST ==
    <<  -20,  -10,  -10,  -10,  -10,  -10,  -10,  -20,
        -10,    0,    0,    0,    0,    0,    0,  -10,
        -10,    0,    5,   10,   10,    5,    0,  -10,
        -10,    5,    5,   10,   10,    5,    5,  -10,
        -10,    0,   10,   10,   10,   10,    0,  -10,
        -10,   10,   10,   10,   10,   10,   10,  -10,
        -10,   10,    0,    0,    0,    0,   10,  -10,
        -20,  -10,  -10,  -10,  -10,  -10,  -10,  -20 >>

EG_ROOK_PST ==
    <<   40,   40,   40,    0,    0,   40,   40,   40,
          5,   10,   10,   10,   10,   10,   10,    5,
         -5,    0,    0,    0,    0,    0,    0,   -5,
         -5,    0,    0,    0,    0,    0,    0,   -5,
         -5,    0,    0,    0,    0,    0,    0,   -5,
         -5,    0,    0,    0,    0,    0,    0,   -5,
         -5,    0,    0,    0,    0,    0,    0,   -5,
          0,    0,   10,    5,    5,   10,    0,    0 >>

EG_QUEEN_PST ==
    <<  -20,  -10,  -10,   -5,   -5,  -10,  -10,  -20,
        -10,    0,    0,    0,    0,    0,    0,  -10,
        -10,    0,    5,    5,    5,    5,    0,  -10,
         -5,    0,    5,    5,    5,    5,    0,   -5,
          0,    0,    5,    5,    5,    5,    0,   -5,
        -10,    5,    5,    5,    5,    5,    0,  -10,
        -10,    0,    5,    0,    0,    0,    0,  -10,
        -20,  -10,  -10,   -5,   -5,  -10,  -10,  -20 >>

EG_KING_PST ==
    <<  -50,  -30,  -30,  -30,  -30,  -30,  -30,  -50,
        -30,  -20,  -20,  -20,  -20,  -20,  -20,  -30,
        -30,  -10,   -5,    0,    0,   -5,  -10,  -30,
        -30,  -10,    0,   10,   10,    0,  -10,  -30,
        -30,  -10,    0,   10,   10,    0,  -10,  -30,
        -30,  -10,   -5,    0,    0,   -5,  -10,  -30,
        -30,  -20,  -20,  -20,  -20,  -20,  -20,  -30,
        -50,  -30,  -30,  -30,  -30,  -30,  -30,  -50 >>

white_mg(r) ==
    CASE r = "Pawn" -> MG_PAWN_PST [] r = "Knight" -> MG_KNIGHT_PST
      [] r = "Bishop" -> MG_BISHOP_PST [] r = "Rook" -> MG_ROOK_PST
      [] r = "Queen" -> MG_QUEEN_PST [] r = "King" -> MG_KING_PST

white_eg(r) ==
    CASE r = "Pawn" -> EG_PAWN_PST [] r = "Knight" -> EG_KNIGHT_PST
      [] r = "Bishop" -> EG_BISHOP_PST [] r = "Rook" -> EG_ROOK_PST
      [] r = "Queen" -> EG_QUEEN_PST [] r = "King" -> EG_KING_PST

\* Mirror a square index vertically (rank r -> rank 7 - r).
mirror_sq(sq) == (7 - (sq \div 8)) * 8 + (sq % 8)

\* Black tables: the white table mirrored and negated.
black_mg(r) == [i \in 1..64 |-> -(white_mg(r)[mirror_sq(i - 1) + 1])]

black_eg(r) == [i \in 1..64 |-> -(white_eg(r)[mirror_sq(i - 1) + 1])]

\* Sum of f over the squares 0..63.
SumSquares(f(_)) ==
    LET row(r) == f(8 * r) + f(8 * r + 1) + f(8 * r + 2) + f(8 * r + 3)
                  + f(8 * r + 4) + f(8 * r + 5) + f(8 * r + 6) + f(8 * r + 7)
    IN row(0) + row(1) + row(2) + row(3) + row(4) + row(5) + row(6) + row(7)

\* Sum of the phase weights of all pieces on the board.
phase_sum(b) ==
    LET w(s) == IF b[s].role = "None" THEN 0 ELSE PIECE_PHASE_VALUES[RoleIdx(b[s].role) + 1]
    IN SumSquares(w)

\* A game phase that is not inverted: it falls as pieces come off.
compute_game_phase_NotInverted(b) == Min(phase_sum(b), MAX_PHASE)

\* compute_game_phase, times MAX_PHASE: 0 is midgame, 24 is endgame.
compute_game_phase(b) == MAX_PHASE - Min(phase_sum(b), MAX_PHASE)

\* (mg * (1 - e) + eg * e) as i32, with e = phase24 / 24.
Interpolate(mg, eg, phase24) ==
    TruncDiv(mg * (MAX_PHASE - phase24) + eg * phase24, MAX_PHASE)

get_piece_square_value(piece, sq, phase24) ==
    LET mg_value == IF piece.color = "White"
                    THEN white_mg(piece.role)[sq + 1]
                    ELSE black_mg(piece.role)[sq + 1]
        eg_value == IF piece.color = "White"
                    THEN white_eg(piece.role)[sq + 1]
                    ELSE black_eg(piece.role)[sq + 1]
    IN Interpolate(mg_value, eg_value, phase24)

\* The signed contribution of the piece on `sq` to the score.
piece_score(b, sq, side_to_move, phase24) ==
    LET piece == b[sq]
        piece_value == Interpolate(PIECE_VALUES[RoleIdx(piece.role) + 1][1],
                                   PIECE_VALUES[RoleIdx(piece.role) + 1][2], phase24)
        position_value == get_piece_square_value(piece, sq, phase24)
        value == piece_value + position_value
    IN IF piece.color = side_to_move THEN value ELSE -value

evaluate_position_with_pst(pos) ==
    LET endgame_phase == compute_game_phase(pos.board)
        c(s) == IF pos.board[s].role = "None" THEN 0
                ELSE piece_score(pos.board, s, pos.turn, endgame_phase)
    IN SumSquares(c)

----------------------------------------------------------------------------
(* Position fingerprint (ai/zobrist.rs)                                    *)
(*                                                                         *)
(* initialize_zobrist_keys draws every key from one generator with a fixed *)
(* seed.  A key is modelled by its place in the key table, a 64-bit value  *)
(* by the set of keys XOR-ed into it, and XOR by symmetric difference.     *)

MAX_DRAWBACK_INDICES == 1024

MAX_RNG_OUTCOMES == 256

Xor(a, b) == (a \ b) \cup (b \ a)

keys_pieces(piece_idx, square_idx) == {<<"pieces", piece_idx, square_idx>>}

\* A side-to-move key of zero.
keys_turn_Zero == {}

keys_turn == {<<"turn">>}

keys_castling(i) == {<<"castling", i>>}

keys_en_passant(file_idx) == {<<"en_passant", file_idx>>}

keys_drawbacks(i) == {<<"drawbacks", i>>}

keys_rng_outcomes(i) == {<<"rng_outcomes", i>>}

square_to_index(sq) == Rank(sq) * 8 + File(sq)

piece_to_index(role, color) == (IF color = "White" THEN 0 ELSE 6) + RoleIdx(role)

to_key_index(id) ==
    CASE id = "None" -> 0 [] id = "NoCastling" -> 1
      [] id = "PawnPushOneOnly" -> 2 [] id = "BlockRandomFile" -> 3

get_current_player_drawback_id(gs) ==
    IF gs.current_player_turn = "White" THEN gs.white_drawback ELSE gs.black_drawback

\* Position::ep_square(EnPassantMode::Legal): the en-passant square when a
\* legal en-passant capture exists.
ep_square_legal(pos) ==
    IF pos.ep_square # NoSquare /\ \E m \in legal_moves(pos) : m.kind = "EnPassant"
    THEN pos.ep_square
    ELSE NoSquare

XorIf(hash, cond, key) == IF cond THEN Xor(hash, key) ELSE hash

calculate_zobrist_hash(gs) ==
    LET board == gs.board
        h1 == UNION {keys_pieces(piece_to_index(board.board[sq].role, board.board[sq].color),
                                 square_to_index(sq)) :
                       sq \in {x \in Squares : board.board[x].role # "None"}}
        h2 == XorIf(h1, gs.current_player_turn = "Black", keys_turn)
        h3a == XorIf(h2, "WK" \in board.castles, keys_castling(0))
        h3b == XorIf(h3a, "WQ" \in board.castles, keys_castling(1))
        h3c == XorIf(h3b, "BK" \in board.castles, keys_castling(2))
        h3d == XorIf(h3c, "BQ" \in board.castles, keys_castling(3))
        ep_sq == ep_square_legal(board)
        h4 == XorIf(h3d, ep_sq # NoSquare, keys_en_passant(File(ep_sq)))
        drawback_idx == to_key_index(get_current_player_drawback_id(gs)) % MAX_DRAWBACK_INDICES
        h5 == Xor(h4, keys_drawbacks(drawback_idx))
        rng == gs.current_turn_rng_outcome
    IN XorIf(h5, rng # NoOutcome, keys_rng_outcomes(rng % (MAX_RNG_OUTCOMES + 1)))

----------------------------------------------------------------------------
(* Game state and search context *)

\* GameState (game_logic/state.rs); zobrist_hash is a set of keys.
MkGameState(board, turn, status, wd, bd, rng, hash, flipped) ==
    [board |-> board, current_player_turn |-> turn, status |-> status,
     white_drawback |-> wd, black_drawback |-> bd,
     current_turn_rng_outcome |-> rng, zobrist_hash |-> hash, board_flipped |-> flipped]

\* Option<Move>::None
NoMove ==
    [kind |-> "None", role |-> "None", from |-> NoSquare, to |-> NoSquare,
     capture |-> "None", promotion |-> "None"]

\* AiSettings (config.rs)
MkAiSettings(iters, time_ms, depth, quiet, qdepth) ==
    [iteration_limit |-> iters, time_limit_ms |-> time_ms, depth_limit |-> depth,
     check_quietness |-> quiet, quiescence_depth |-> qdepth]

\* AiGameStateContext::from_game_state
from_game_state(gs, settings) ==
    [board |-> gs.board,
     player_turn |-> gs.current_player_turn,
     player_drawback |-> get_current_player_drawback_id(gs),
     opponent_drawback |-> IF gs.current_player_turn = "White"
                           THEN gs.black_drawback ELSE gs.white_drawback,
     current_hash |-> gs.zobrist_hash,
     depth |-> settings.depth_limit,
     check_quietness |-> settings.check_quietness,
     quiescence_depth |-> settings.quiescence_depth,
     time_limit_ms |-> settings.time_limit_ms]

\* Vec<Move> from the move list of the position, in a fixed order.
MoveVec(moves) ==
    LET pick[S \in SUBSET moves] ==
          IF S = {} THEN <<>>
          ELSE LET m == CHOOSE x \in S :
                          \A y \in S : <<x.from, x.to, x.promotion>> = <<y.from, y.to, y.promotion>>
                                       \/ x.from < y.from
                                       \/ (x.from = y.from /\ x.to < y.to)
                                       \/ (x.from = y.from /\ x.to = y.to)
               IN <<m>> \o pick[S \ {m}]
    IN pick[moves]

SeqToSet(q) == {q[i] : i \in 1..Len(q)}

\* The legal moves of the side to move that its handicap allows, as
\* apply_move computes them (game_logic/systems.rs).
allowed_moves(gs) ==
    LET legal == legal_moves(gs.board)
        id == get_current_player_drawback_id(gs)
    IN IF id # "None" /\ id \in registry_rules
       THEN {m \in legal :
               filter_pseudo_legal_moves(id, <<m>>, gs.current_turn_rng_outcome) # <<>>}
       ELSE legal

----------------------------------------------------------------------------
(* Heuristic search: find_best_move_mcts (ai/mcts.rs) *)

is_king_capture(b, m) == b[m.to].role = "King"

get_capture_value(b, m) ==
    IF b[m.to].role # "None"
    THEN CASE b[m.to].role = "Pawn" -> 100
           [] b[m.to].role = "Knight" -> 320
           [] b[m.to].role = "Bishop" -> 330
           [] b[m.to].role = "Rook" -> 500
           [] b[m.to].role = "Queen" -> 900
           [] b[m.to].role = "King" -> 20000
    ELSE IF b[m.from].role = "Pawn" /\ File(m.from) # File(m.to)
    THEN 100
    ELSE 0

\* The score find_best_move_mcts gives to the legal move m.
move_score(board_copy, m, in_check) ==
    LET b == board_copy.board
        test_board == play_unchecked(board_copy, m)
        opponent_responses == legal_moves(test_board)
        opponent_can_capture_king ==
            \E opp_move \in opponent_responses : is_king_capture(test_board.board, opp_move)
        possible_responses == Cardinality(opponent_responses)
    IN get_capture_value(b, m)
       + (IF is_king_capture(b, m) THEN 20000 ELSE 0)
       - (IF opponent_can_capture_king THEN 15000 ELSE 0)
       + (IF is_check(test_board)
          THEN 50 + Max(20 * (20 - possible_responses), 0) ELSE 0)
       + (IF in_check THEN 300 ELSE 0)
       + evaluate_position_with_pst(test_board)

\* Every value find_best_move_mcts may return for the context: NoMove when
\* there is no legal move, else any move with the best score.
find_best_move_mcts(ctx) ==
    LET board_copy == ctx.board
        legal == legal_moves(board_copy)
        in_check == is_check(board_copy)
        scored == {<<m, move_score(board_copy, m, in_check)>> : m \in legal}
    IN IF legal = {}
       THEN {NoMove}
       ELSE {best[1] : best \in {p \in scored : \A o \in scored : o[2] <= p[2]}}

----------------------------------------------------------------------------
(* Tree search: find_best_move_mcts_monte_carlo (ai/mcts.rs).  Scores are   *)
(* kept multiplied by 80; child indices and paths count from 1.            *)

WIN_SCORE == 80

DRAW_SCORE == 40

LOSE_SCORE == 0

\* 0.2, the value of a position whose side to move is in check
CHECK_SCORE == 16

\* 10000 * EXPLORATION_CONSTANT * sqrt(ln(N) / n), rounded to the nearest
\* integer, for parent visits N (row) and child visits n (column).
EXPLORATION_TABLE ==
    << <<     0,     0,     0,     0,     0,     0,     0,     0 >>,
       << 11656,  8242,  6729,  5828,  5213,  4758,  4405,  4121 >>,
       << 14674, 10376,  8472,  7337,  6562,  5991,  5546,  5188 >>,
       << 16484, 11656,  9517,  8242,  7372,  6729,  6230,  5828 >>,
       << 17761, 12559, 10254,  8880,  7943,  7251,  6713,  6279 >>,
       << 18740, 13251, 10820,  9370,  8381,  7651,  7083,  6626 >>,
       << 19529, 13809, 11275,  9765,  8734,  7973,  7381,  6905 >>,
       << 20188, 14275, 11656, 10094,  9029,  8242,  7630,  7138 >> >>

ExplorationTerm(N, n) == EXPLORATION_TABLE[N][n]

MCTSNode_new(position, move_made, current_hash) ==
    [visits |-> 0, score |-> 0, position |-> position, move_made |-> move_made,
     children |-> <<>>, unexplored_moves |-> <<>>, current_hash |-> current_hash,
     has_expanded |-> FALSE]

expand(self) ==
    IF ~self.has_expanded
    THEN [self EXCEPT !.unexplored_moves = MoveVec(legal_moves(self.position)),
                      !.has_expanded = TRUE]
    ELSE self

\* child c scores at least as high as child d in best_child.  The two
\* values c.score / c.visits + term are compared after multiplying by
\* 80 * 10000 * c.visits * d.visits; where the terms differ, the rounding
\* of the table is allowed for, so a near tie admits both children.
child_at_least(self, c, d, exploration) ==
    LET vv == c.visits * d.visits
        ec == IF exploration THEN ExplorationTerm(self.visits, c.visits) ELSE 0
        ed == IF exploration THEN ExplorationTerm(self.visits, d.visits) ELSE 0
        slack == IF exploration /\ c.visits # d.visits THEN 80 * vv ELSE 0
    IN c.score * d.visits * 10000 + ec * 80 * vv + slack
         >= d.score * c.visits * 10000 + ed * 80 * vv

\* The indices best_child may return; the empty set stands for None.
best_child(self, exploration) ==
    {i \in 1..Len(self.children) :
       \A j \in 1..Len(self.children) :
          child_at_least(self, self.children[i], self.children[j], exploration)}

material_value(role) ==
    CASE role = "Pawn" -> 1
      [] role = "Knight" -> 3
      [] role = "Bishop" -> 3
      [] role = "Rook" -> 5
      [] role = "Queen" -> 9
      [] OTHER -> 0

evaluate_position(position, player_is_white) ==
    LET result == outcome(position)
        mine == IF player_is_white THEN "White" ELSE "Black"
        value(sq) ==
            LET piece == position.board[sq]
            IN IF piece.role = "None" THEN 0
               ELSE IF piece.color = mine THEN material_value(piece.role)
               ELSE 0 - material_value(piece.role)
        score == SumSquares(value)
    IN IF result = "Draw" THEN DRAW_SCORE
       ELSE IF result # "None" THEN (IF result = mine THEN WIN_SCORE ELSE LOSE_SCORE)
       ELSE IF is_checkmate(position) THEN WIN_SCORE
       ELSE IF is_check(position) THEN CHECK_SCORE
       ELSE Min(Max(score + 40, 0), 80)

is_position_quiet(position) ==
    /\ ~is_check(position)
    /\ \A m \in legal_moves(position) : position.board[m.to].role = "None"

\* The ways the simulation phase may end, started at `depth`: the final
\* position and the number of moves played.
RECURSIVE simulate(_, _, _)
simulate(simulation_position, depth, context) ==
    LET max_depth == context.depth
        legal == legal_moves(simulation_position)
        stop == {[position |-> simulation_position, depth |-> depth]}
    IN IF ~(depth < max_depth) THEN stop
       ELSE IF outcome(simulation_position) # "None" THEN stop
       ELSE IF context.check_quietness /\ depth > 0
               /\ is_position_quiet(simulation_position)
       THEN stop
       ELSE IF ~(depth >= max_depth /\ ~is_position_quiet(simulation_position)
                 /\ depth < max_depth + context.quiescence_depth)
               /\ depth >= max_depth
       THEN stop
       ELSE IF legal = {} THEN stop
       ELSE UNION {simulate(play_unchecked(simulation_position, m), depth + 1, context) :
                     m \in legal}

\* What is kept of a finished simulation: the moves played, the score of
\* the final position, and whether that position is terminal, quiet, in
\* check, and what its material balance is for the root mover.
playout_record(final, context) ==
    LET position == final.position
        mine == context.player_turn
        balance(sq) ==
            LET piece == position.board[sq]
            IN IF piece.role = "None" THEN 0
               ELSE IF piece.color = mine THEN material_value(piece.role)
               ELSE 0 - material_value(piece.role)
    IN [plies |-> final.depth,
        score |-> evaluate_position(position, context.player_turn = "White"),
        outcome |-> outcome(position),
        quiet |-> is_position_quiet(position),
        in_check |-> is_check(position),
        has_moves |-> legal_moves(position) # {},
        balance |-> SumSquares(balance)]

\* The simulations that may be run from `position`.
playouts(position, context) ==
    {playout_record(final, context) : final \in simulate(position, 0, context)}

\* The scores one simulation started from `position` may end with.
simulation_scores(position, context) ==
    {playout.score : playout \in playouts(position, context)}

RECURSIVE NodeAt(_, _)
NodeAt(node, path) ==
    IF path = <<>> THEN node ELSE NodeAt(node.children[Head(path)], Tail(path))

RECURSIVE ReplaceAt(_, _, _)
ReplaceAt(node, path, new) ==
    IF path = <<>> THEN new
    ELSE [node EXCEPT !.children[Head(path)] = ReplaceAt(@, Tail(path), new)]

\* Vec::swap_remove: the last element takes the place of the removed one.
swap_remove(v, i) ==
    [k \in 1..(Len(v) - 1) |-> IF k = i THEN v[Len(v)] ELSE v[k]]

\* Selection phase: the paths the loop may leave in current_path.
selection(root) ==
    IF root.unexplored_moves = <<>> /\ root.children # <<>>
    THEN IF best_child(root, TRUE) # {}
         THEN {<<i>> : i \in best_child(root, TRUE)}
         ELSE {<<>>}
    ELSE {<<>>}

\* Expansion phase: the (root, current_path) pairs it may produce.
expansion(root, current_path, context) ==
    LET current == NodeAt(root, current_path)
    IN IF current.unexplored_moves # <<>> /\ current.visits > 0
       THEN {LET new_move == current.unexplored_moves[random_index]
                 new_child == expand(MCTSNode_new(play_unchecked(current.position, new_move),
                                                  new_move, context.current_hash))
                 grown == [current EXCEPT
                             !.unexplored_moves = swap_remove(@, random_index),
                             !.children = Append(@, new_child)]
             IN [root |-> ReplaceAt(root, current_path, grown),
                 current_path |-> Append(current_path, Len(grown.children))] :
               random_index \in 1..Len(current.unexplored_moves)}
       ELSE {[root |-> root, current_path |-> current_path]}

\* A backpropagation that stops at the root.
backpropagate_RootOnly(node, path, score) ==
    [node EXCEPT !.visits = @ + 1, !.score = @ + score]

\* Backpropagation phase: the root and every node along the path.
RECURSIVE backpropagate(_, _, _)
backpropagate(node, path, score) ==
    LET updated == [node EXCEPT !.visits = @ + 1, !.score = @ + score]
    IN IF path = <<>> THEN updated
       ELSE [updated EXCEPT
               !.children[Head(path)] = backpropagate(@, Tail(path), score)]

\* A final selection that returns nothing when the root has no child.
final_selection_ChildrenOnly(root) ==
    IF best_child(root, FALSE) # {}
    THEN {root.children[i].move_made : i \in best_child(root, FALSE)}
    ELSE {NoMove}

\* What the function may return once the loop is over.
final_selection(root) ==
    IF best_child(root, FALSE) # {}
    THEN {root.children[i].move_made : i \in best_child(root, FALSE)}
    ELSE IF root.unexplored_moves # <<>>
    THEN SeqToSet(root.unexplored_moves)
    ELSE {NoMove}

----------------------------------------------------------------------------
(* Host: the turn loop around the game state (game_logic, input, ai/plugin) *)

TurnStates == {"PlayerTurn", "AiTurn", "ProcessingMove", "GameOver"}

\* The fingerprint init_game_state stores; the function it calls is not
\* part of the sources: the fingerprint of the board alone.
calculate_zobrist_hash_for_board(board) ==
    calculate_zobrist_hash(MkGameState(board, board.turn, "Ongoing", "None", "None",
                                       NoOutcome, {}, FALSE))

\* A start with the side-to-move field set to Black.
init_game_state_BlackToMove(white_drawback_id, black_drawback_id) ==
    MkGameState(StandardPosition, "Black", "Ongoing", white_drawback_id, black_drawback_id,
                NoOutcome, calculate_zobrist_hash_for_board(StandardPosition), FALSE)

\* init_game_state: the standard position, White to move, the handicaps of
\* the configuration, no outcome drawn.
init_game_state(white_drawback_id, black_drawback_id) ==
    MkGameState(StandardPosition, "White", "Ongoing", white_drawback_id, black_drawback_id,
                NoOutcome, calculate_zobrist_hash_for_board(StandardPosition), FALSE)

is_allowable_check_move(gs, candidate_move) == FALSE

\* The body of apply_move's loop for one MakeMoveEvent.  `st` holds the
\* game state, the requested turn state and the last filter call.
apply_move_event(st, current_state, move_to_make) ==
    LET gs == st.game_state
        is_ai_move == gs.current_player_turn = "Black"
        is_player_move == gs.current_player_turn = "White"
        legal == legal_moves(gs.board)
        player_drawback_id == get_current_player_drawback_id(gs)
        filtering == player_drawback_id # "None" /\ player_drawback_id \in registry_rules
        filtered == IF filtering
                    THEN SeqToSet(filter_pseudo_legal_moves(player_drawback_id, MoveVec(legal),
                                                            gs.current_turn_rng_outcome))
                    ELSE legal
        seen == IF filtering
                THEN [st EXCEPT !.filter_call = [rule |-> player_drawback_id,
                                                 rng_outcome |-> gs.current_turn_rng_outcome]]
                ELSE st
        move_is_allowed == move_to_make \in filtered
                           \/ is_allowable_check_move(gs, move_to_make)
        piece == gs.board.board[move_to_make.from]
        king_captured == is_king_capture(gs.board.board, move_to_make)
        new_board == play_unchecked(gs.board, move_to_make)
        mover == Other(gs.current_player_turn)
    IN IF (is_ai_move /\ current_state # "AiTurn")
          \/ (is_player_move /\ current_state # "PlayerTurn")
       THEN st
       ELSE IF ~move_is_allowed THEN seen
       ELSE IF piece.role = "None" \/ piece.color # gs.current_player_turn THEN seen
       ELSE [seen EXCEPT
               !.game_state = [gs EXCEPT !.board = new_board,
                                         !.current_player_turn = mover,
                                         !.status = IF king_captured THEN "GameOver" ELSE @],
               !.next_state = IF king_captured THEN "GameOver"
                              ELSE IF mover = "Black" THEN "AiTurn" ELSE "PlayerTurn",
               !.applied = @ + 1]

\* An apply_move for which the turn state changes as soon as a move is
\* applied.
apply_move_StateFollows(st, current_state, events) ==
    LET state_of(x) == IF x.next_state \in {"PlayerTurn", "AiTurn"}
                       THEN x.next_state ELSE current_state
        after[i \in 0..Len(events)] ==
          IF i = 0 THEN st
          ELSE apply_move_event(after[i - 1], state_of(after[i - 1]), events[i])
    IN after[Len(events)]

\* An apply_move that requests ProcessingMove before it validates an event.
apply_move_ProcessingFirst(st, current_state, events) ==
    LET after[i \in 0..Len(events)] ==
          IF i = 0 THEN st
          ELSE apply_move_event([after[i - 1] EXCEPT !.next_state = "ProcessingMove"],
                                current_state, events[i])
    IN after[Len(events)]

\* apply_move: every pending event in turn.
apply_move(st, current_state, events) ==
    LET after[i \in 0..Len(events)] ==
          IF i = 0 THEN st ELSE apply_move_event(after[i - 1], current_state, events[i])
    IN after[Len(events)]

\* A validation that accepts every move.
validate_ai_move_Always(gs, proposed_move) == TRUE

validate_ai_move(gs, proposed_move) == proposed_move \in legal_moves(gs.board)

\* The moves get_fallback_move may return; NoMove when there is none.
get_fallback_move(gs) ==
    IF legal_moves(gs.board) = {} THEN {NoMove} ELSE legal_moves(gs.board)

----------------------------------------------------------------------------
(* Idle values of the harness variables a specification does not use *)

FltIdle == [rule |-> "None", moves |-> <<>>, rng_outcome |-> NoOutcome, result |-> <<>>]

EvlIdle ==
    [position |-> MkPosition(EmptyBoard, "White", {}, NoSquare),
     score |-> 0, mirror_score |-> 0, phase_before |-> 0, phase_after |-> 0,
     removed |-> NoPiece]

HshIdle == [game_state |-> "None", hash |-> {}, hash_turn_flipped |-> {}, hash_other_fields |-> {}]

\* A game state and a search context on an empty board.
IdleGameState ==
    MkGameState(MkPosition(EmptyBoard, "White", {}, NoSquare), "White",
                "Ongoing", "None", "None", NoOutcome, {}, FALSE)

IdleContext == from_game_state(IdleGameState, MkAiSettings(0, 0, 0, FALSE, 0))

\* No simulation yet.
NoPlayout ==
    [plies |-> 0, score |-> 0, outcome |-> "None", quiet |-> TRUE, in_check |-> FALSE,
     has_moves |-> FALSE, balance |-> 0]

\* No selection yet: where the selection phase ended, and what the node
\* there had of unexplored moves and of children.
NoSelection == [path |-> <<>>, unexplored_moves |-> 0, children |-> 0]

\* The search call before it starts; `paths` records the current_path of
\* every completed iteration, `selected` and `playout` the selection and
\* the simulation of the last one, `elapsed_reached_limit` whether
\* start_time.elapsed() has reached time_limit.
SrchIdle ==
    [game_state |-> IdleGameState,
     settings |-> MkAiSettings(0, 0, 0, FALSE, 0),
     iterations |-> 0,
     context |-> IdleContext,
     algorithm |-> "None",
     root |-> MCTSNode_new(IdleGameState.board, NoMove, {}),
     completed_iterations |-> 0,
     paths |-> <<>>,
     selected |-> NoSelection,
     playout |-> NoPlayout,
     elapsed_reached_limit |-> FALSE,
     result |-> NoMove]

\* No call of a rule's filter yet.
NoFilterCall == [rule |-> "None", rng_outcome |-> NoOutcome]

\* check_ai_move_result has not yet found a finished task.
NoPoll ==
    [happened |-> FALSE, result |-> NoMove, sent |-> NoMove, board |-> IdleGameState.board,
     searched |-> IdleGameState.board]

\* The host before the game starts.  `tasks` are the AiThinking entities,
\* `commands` the deferred commands of the frame, `ran` the systems that
\* have run in the frame, `polled` the last task result taken (with the
\* board read at the poll and the board the task searched), `plies` the
\* moves applied and `max_plies` the number of moves the inputs stop at.
GameIdle ==
    [game_state |-> SrchIdle.game_state,
     turn_state |-> "PlayerTurn",
     next_state |-> "None",
     events |-> <<>>,
     valid_moves |-> {},
     tasks |-> <<>>,
     commands |-> <<>>,
     ran |-> {},
     polled |-> NoPoll,
     filter_call |-> NoFilterCall,
     plies |-> 0,
     max_plies |-> 0]

\* Option<String> and Option<u16> are sequences of at most one element.
CfgIdle ==
    [setting |-> [name |-> <<>>, index |-> <<>>], resolved |-> "None",
     resolved_without_index |-> "None"]

\* What apply_move reads and writes: the game state, the requested turn
\* state, the last filter call and the number of moves applied.
ApplyState(gs) ==
    [game_state |-> gs, next_state |-> "None", filter_call |-> NoFilterCall, applied |-> 0]

AplIdle ==
    [before |-> ApplyState(IdleGameState), current_state |-> "PlayerTurn", events |-> <<>>,
     after |-> ApplyState(IdleGameState)]

FltRest == <<evl, hsh, srch, game, cfg, apl>>
FltRestIdle ==
    evl = EvlIdle /\ hsh = HshIdle /\ srch = SrchIdle /\ game = GameIdle /\ cfg = CfgIdle
      /\ apl = AplIdle

EvlRest == <<flt, hsh, srch, game, cfg, apl>>
EvlRestIdle ==
    flt = FltIdle /\ hsh = HshIdle /\ srch = SrchIdle /\ game = GameIdle /\ cfg = CfgIdle
      /\ apl = AplIdle

HshRest == <<flt, evl, srch, game, cfg, apl>>
HshRestIdle ==
    flt = FltIdle /\ evl = EvlIdle /\ srch = SrchIdle /\ game = GameIdle /\ cfg = CfgIdle
      /\ apl = AplIdle

SrchRest == <<flt, evl, hsh, game, cfg, apl>>
SrchRestIdle ==
    flt = FltIdle /\ evl = EvlIdle /\ hsh = HshIdle /\ game = GameIdle /\ cfg = CfgIdle
      /\ apl = AplIdle

GameRest == <<flt, evl, hsh, srch, cfg, apl>>
GameRestIdle ==
    flt = FltIdle /\ evl = EvlIdle /\ hsh = HshIdle /\ srch = SrchIdle /\ cfg = CfgIdle
      /\ apl = AplIdle

CfgRest == <<flt, evl, hsh, srch, game, apl>>
CfgRestIdle ==
    flt = FltIdle /\ evl = EvlIdle /\ hsh = HshIdle /\ srch = SrchIdle /\ game = GameIdle
      /\ apl = AplIdle

AplRest == <<flt, evl, hsh, srch, game, cfg>>
AplRestIdle ==
    flt = FltIdle /\ evl = EvlIdle /\ hsh = HshIdle /\ srch = SrchIdle /\ game = GameIdle
      /\ cfg = CfgIdle

----------------------------------------------------------------------------
(* SpecFilter: one call of a rule's filter_pseudo_legal_moves on a move    *)
(* list and a per-turn random outcome (Option<u8>).                        *)

MaxMoves == 3

\* Moves the lists are drawn from: a castle, single and double pawn
\* advances, a rook moving two ranks, a knight landing on file A, an
\* en-passant capture.
MovePool ==
    { CastleMove(4, 7),
      NormalMove("Pawn", 12, 28, "None", "None"),
      NormalMove("Pawn", 48, 32, "None", "None"),
      NormalMove("Pawn", 12, 20, "None", "None"),
      NormalMove("Rook", 7, 23, "None", "None"),
      NormalMove("Knight", 1, 16, "None", "None"),
      EnPassantMove(36, 43) }

MoveLists == UNION {[1..n -> MovePool] : n \in 0..MaxMoves}

\* Option<u8>: None, the eight files, and values past the last file.
RngOutcomes == {NoOutcome} \cup 0..9 \cup {255}

FilterInit ==
    /\ flt \in {[rule |-> "None", moves |-> ml, rng_outcome |-> r, result |-> <<>>] :
                  ml \in MoveLists, r \in RngOutcomes}
    /\ FltRestIdle
    /\ pc = "input"

CallFilter(id) ==
    /\ pc = "input"
    /\ flt' = [flt EXCEPT !.rule = id,
                          !.result = filter_pseudo_legal_moves(id, flt.moves, flt.rng_outcome)]
    /\ pc' = "filtered"
    /\ UNCHANGED FltRest

FilterNoCastling == CallFilter("NoCastling")

FilterPawnPushOneOnly == CallFilter("PawnPushOneOnly")

FilterBlockRandomFile == CallFilter("BlockRandomFile")

FilterNext == FilterNoCastling \/ FilterPawnPushOneOnly \/ FilterBlockRandomFile

SpecFilter == FilterInit /\ [][FilterNext]_vars

\* `out` is exactly the elements of `inp` that satisfy keep, in their order.
KeptInOrder(inp, out, keep(_)) ==
    LET idx == {i \in 1..Len(inp) : keep(inp[i])}
        nth(k) == CHOOSE i \in idx : Cardinality({j \in idx : j < i}) = k - 1
    IN /\ Len(out) = Cardinality(idx)
       /\ \A k \in 1..Len(out) : out[k] = inp[nth(k)]

\* C7: NoCastling's filter returns exactly the non-castle moves of its input,
\* in their original order, for every move list and every rng outcome.
C7_NoCastlingExact ==
    (pc = "filtered" /\ flt.rule = "NoCastling") =>
        LET notCastle(mv) == mv.kind # "Castle"
        IN KeptInOrder(flt.moves, flt.result, notCastle)

\* A castle between two other moves is dropped, the two are kept in order.
C7_Witness ==
    /\ pc = "filtered" /\ flt.rule = "NoCastling"
    /\ Len(flt.moves) = 3
    /\ flt.moves[2].kind = "Castle"
    /\ flt.moves[1].kind # "Castle" /\ flt.moves[3].kind # "Castle"
    /\ flt.moves[1] # flt.moves[3]
    /\ flt.result = <<flt.moves[1], flt.moves[3]>>

C9_BlockFileNoOutcome ==
    (/\ pc = "filtered" /\ flt.rule = "BlockRandomFile"
     /\ (flt.rng_outcome = NoOutcome \/ flt.rng_outcome >= 8)) =>
        flt.result = flt.moves

\* No outcome: a list with a move to file A comes back unchanged.
C9_Witness ==
    /\ pc = "filtered" /\ flt.rule = "BlockRandomFile"
    /\ flt.rng_outcome = NoOutcome
    /\ Len(flt.moves) = 3
    /\ \E i \in 1..3 : File(flt.moves[i].to) = 0
    /\ flt.result = flt.moves

----------------------------------------------------------------------------
(* SpecEval: the evaluator applied to a position and to its colour-swapped *)
(* mirror image, and the game phase before and after a piece is removed.   *)

\* Both kings, on their home squares, are on every board.
EvalKings == {<<4, "King", "White">>, <<60, "King", "Black">>}

\* The other pieces a board is drawn from; six queens, so that the phase
\* sum can pass MAX_PHASE.
EvalPool ==
    { <<3, "Queen", "White">>, <<59, "Queen", "Black">>,
      <<56, "Queen", "White">>, <<57, "Queen", "White">>,
      <<0, "Queen", "Black">>, <<1, "Queen", "Black">>,
      <<7, "Rook", "White">>, <<27, "Knight", "White">>,
      <<34, "Bishop", "Black">>, <<12, "Pawn", "White">>,
      <<51, "Pawn", "Black">> }

EvalPositions ==
    {MkPosition(BoardOf(EvalKings \cup ps), t, {}, NoSquare) :
        ps \in SUBSET EvalPool, t \in Colors}

\* Ranks mirrored and every piece's colour swapped; side to move unchanged.
MirrorSwap(pos) ==
    [pos EXCEPT !.board =
        [s \in Squares |->
            LET p == pos.board[mirror_sq(s)]
            IN IF p.role = "None" THEN NoPiece ELSE Piece(p.role, Other(p.color))]]

EvalInit ==
    /\ evl \in {[EvlIdle EXCEPT !.position = p] : p \in EvalPositions}
    /\ EvlRestIdle
    /\ pc = "input"

Evaluate ==
    /\ pc = "input"
    /\ evl' = [evl EXCEPT
                 !.score = evaluate_position_with_pst(evl.position),
                 !.mirror_score = evaluate_position_with_pst(MirrorSwap(evl.position))]
    /\ pc' = "evaluated"
    /\ UNCHANGED EvlRest

\* A capture takes the piece on `sq` off the board.
RemovePiece(sq) ==
    /\ pc = "input"
    /\ evl.position.board[sq].role \in {"Knight", "Bishop", "Rook", "Queen"}
    /\ LET nb == [evl.position.board EXCEPT ![sq] = NoPiece]
       IN evl' = [evl EXCEPT
                    !.removed = evl.position.board[sq],
                    !.phase_before = compute_game_phase(evl.position.board),
                    !.phase_after = compute_game_phase(nb),
                    !.position = [evl.position EXCEPT !.board = nb]]
    /\ pc' = "removed"
    /\ UNCHANGED EvlRest

Remove == \E sq \in Squares : RemovePiece(sq)

EvalNext == Evaluate \/ Remove

SpecEval == EvalInit /\ [][EvalNext]_vars

NumPieces(b) == Cardinality({s \in Squares : b[s].role # "None"})

\* C5 (as claimed): the score of the colour-swapped mirror image is the
\* negation of the score, up to the truncation of each piece's two terms.
C5_Antisymmetric ==
    pc = "evaluated" =>
        Abs(evl.score + evl.mirror_score) <= 2 * NumPieces(evl.position.board)

\* C6: removing a knight, bishop, rook or queen never lowers the game phase.
C6_PhaseMonotonic ==
    pc = "removed" => evl.phase_after >= evl.phase_before

\* A rook comes off a board whose phase sum was 14: the phase goes from
\* 10/24 to 12/24.
C6_Witness ==
    /\ pc = "removed"
    /\ evl.removed.role = "Rook"
    /\ evl.phase_before = 10
    /\ evl.phase_after = 12

----------------------------------------------------------------------------
(* SpecHash: calculate_zobrist_hash on a game state, on the game state     *)
(* with the other side to move, and on a game state that differs in the    *)
(* fields that are no part of the fingerprint.                             *)

PlayAll(pos, ms) ==
    LET after[i \in 0..Len(ms)] == IF i = 0 THEN pos ELSE play_unchecked(after[i - 1], ms[i])
    IN after[Len(ms)]

\* 1. e4
AfterE4 == PlayAll(StandardPosition, <<NormalMove("Pawn", 12, 28, "None", "None")>>)

\* 1. e4 a6 2. e5 d5: white may capture en passant on d6.
AfterD5 ==
    PlayAll(AfterE4, <<NormalMove("Pawn", 48, 40, "None", "None"),
                       NormalMove("Pawn", 28, 36, "None", "None"),
                       NormalMove("Pawn", 51, 35, "None", "None")>>)

\* 1. e4 e5 2. Ke2: white has lost both castling rights.
AfterKe2 ==
    PlayAll(AfterE4, <<NormalMove("Pawn", 52, 36, "None", "None"),
                       NormalMove("King", 4, 12, "None", "None")>>)

HashPositions == {StandardPosition, AfterE4, AfterD5, AfterKe2}

\* Outcomes a rule may have drawn for the turn.
HashOutcomes == {NoOutcome, 0, 3, 7}

\* Stale values the zobrist_hash field may hold when the hash is computed.
StaleHashes == {{}, keys_turn}

HashGameStates ==
    {MkGameState(p, p.turn, "Ongoing", wd, bd, r, h, FALSE) :
        p \in HashPositions, wd \in DrawbackIds, bd \in DrawbackIds,
        r \in HashOutcomes, h \in StaleHashes}

\* The same game state with the other side to move.
FlipTurn(gs) ==
    [gs EXCEPT !.current_player_turn = Other(gs.current_player_turn),
               !.board = [gs.board EXCEPT !.turn = Other(gs.board.turn)]]

\* A game state equal in everything the fingerprint covers.
OtherFields(gs) ==
    [gs EXCEPT !.status = IF gs.status = "Ongoing" THEN "GameOver" ELSE "Ongoing",
               !.zobrist_hash = Xor(gs.zobrist_hash, keys_turn),
               !.board_flipped = ~gs.board_flipped]

HashInit ==
    /\ hsh \in {[HshIdle EXCEPT !.game_state = gs] : gs \in HashGameStates}
    /\ HshRestIdle
    /\ pc = "input"

CalculateHash ==
    /\ pc = "input"
    /\ hsh' = [hsh EXCEPT
                 !.hash = calculate_zobrist_hash(hsh.game_state),
                 !.hash_turn_flipped = calculate_zobrist_hash(FlipTurn(hsh.game_state)),
                 !.hash_other_fields = calculate_zobrist_hash(OtherFields(hsh.game_state))]
    /\ pc' = "hashed"
    /\ UNCHANGED HshRest

HashNext == CalculateHash

SpecHash == HashInit /\ [][HashNext]_vars

\* C4: the fingerprint depends on nothing but placement, side to move,
\* castling rights, en-passant file, handicap ids and pending outcome, and
\* two states that differ only in the side to move have different
\* fingerprints.
C4_HashPureAndTurnSensitive ==
    pc = "hashed" =>
        /\ hsh.hash = hsh.hash_other_fields
        /\ (ep_square_legal(hsh.game_state.board)
              = ep_square_legal(FlipTurn(hsh.game_state).board))
             => hsh.hash # hsh.hash_turn_flipped

\* Both sides have a different handicap, an outcome is pending, and the
\* fingerprints of the two sides to move differ.
C4_Witness ==
    /\ pc = "hashed"
    /\ hsh.game_state.white_drawback = "BlockRandomFile"
    /\ hsh.game_state.black_drawback = "NoCastling"
    /\ hsh.game_state.current_turn_rng_outcome = 3
    /\ hsh.game_state.board = AfterKe2
    /\ hsh.hash # hsh.hash_turn_flipped
    /\ hsh.hash = hsh.hash_other_fields

----------------------------------------------------------------------------
(* SpecConfig: one call of resolve_drawback_id on a drawback setting.      *)

\* The largest index below u16::MAX that is tried.
MaxIndex == 4

\* The names of the three rules, and names no rule has.
KnownNames == {"No Castling", "Pawns Advance One", "Random File Blocked"}

SettingNames == KnownNames \cup {"", "no castling", "NoCastling", "Unknown"}

KnownIndices == {1, 2, 3}

SettingIndices == 0..MaxIndex \cup {65535}

DrawbackSettings ==
    [name : {<<>>} \cup {<<n>> : n \in SettingNames},
     index : {<<>>} \cup {<<i>> : i \in SettingIndices}]

ConfigInit ==
    /\ cfg \in {[CfgIdle EXCEPT !.setting = setting] : setting \in DrawbackSettings}
    /\ CfgRestIdle
    /\ pc = "input"

\* The call, and the call on the same setting with its index taken away.
ResolveDrawback ==
    /\ pc = "input"
    /\ cfg' = [cfg EXCEPT
                 !.resolved = resolve_drawback_id(cfg.setting),
                 !.resolved_without_index =
                     resolve_drawback_id([cfg.setting EXCEPT !.index = <<>>])]
    /\ pc' = "returned"
    /\ UNCHANGED CfgRest

ConfigNext == ResolveDrawback

SpecConfig == ConfigInit /\ [][ConfigNext]_vars

\* C15: resolve_drawback_id returns a drawback id for every setting; no name
\* and no index gives None; a name no rule has gives None whatever the
\* index; an index no rule has, without a name, gives None; and with a name
\* given the index has no part in the result.
C15_ResolveTotal ==
    pc = "returned" =>
        /\ cfg.resolved \in DrawbackIds
        /\ (cfg.setting.name = <<>> /\ cfg.setting.index = <<>>) => cfg.resolved = "None"
        /\ (cfg.setting.name # <<>> /\ cfg.setting.name[1] \notin KnownNames)
              => cfg.resolved = "None"
        /\ (cfg.setting.name = <<>> /\ cfg.setting.index # <<>>
              /\ cfg.setting.index[1] \notin KnownIndices) => cfg.resolved = "None"
        /\ cfg.setting.name # <<>> => cfg.resolved = cfg.resolved_without_index

\* An unknown name given together with the index of a rule.
C15_Witness ==
    /\ pc = "returned"
    /\ cfg.setting.name = <<"Unknown">>
    /\ cfg.setting.index = <<2>>
    /\ cfg.resolved = "None"

----------------------------------------------------------------------------
(* SpecSearch: one call of either search on the context the host builds    *)
(* from its game state (request_ai_move, ai/plugin.rs).                    *)

MaxIterations == 5

\* Black to move, its king shut in: the legal moves are g6 and g5, the
\* second giving check.
PawnCheckPosition ==
    MkPosition(BoardOf({<<56, "King", "Black">>, <<54, "Pawn", "Black">>,
                        <<48, "Pawn", "White">>, <<41, "Pawn", "White">>,
                        <<42, "Pawn", "White">>, <<31, "King", "White">>}),
               "Black", {}, NoSquare)

\* The same with the colours exchanged: White to move, g3 and g4 check.
WhitePawnCheckPosition ==
    MkPosition(BoardOf({<<0, "King", "White">>, <<14, "Pawn", "White">>,
                        <<8, "Pawn", "Black">>, <<17, "Pawn", "Black">>,
                        <<18, "Pawn", "Black">>, <<39, "King", "Black">>}),
               "White", {}, NoSquare)

\* Black to move and in check on the fifth rank; the one legal move is the
\* two-square advance c7c5.
OnlyDoublePushPosition ==
    MkPosition(BoardOf({<<32, "King", "Black">>, <<50, "Pawn", "Black">>,
                        <<39, "Rook", "White">>, <<46, "Rook", "White">>,
                        <<29, "Rook", "White">>, <<7, "King", "White">>}),
               "Black", {}, NoSquare)

\* Black to move, stalemated.
StalematePosition ==
    MkPosition(BoardOf({<<56, "King", "Black">>,
                        <<41, "King", "White">>, <<50, "Queen", "White">>}),
               "Black", {}, NoSquare)

\* White to move and in check from the knight on a4; the legal moves are
\* bxa4 and Ka2, the second uncovering the bishop's check.  After bxa4
\* Black has the one reply Kg7.
DiscoveredCheckPosition ==
    MkPosition(BoardOf({<<9, "King", "White">>, <<0, "Bishop", "White">>,
                        <<1, "Rook", "White">>, <<2, "Knight", "White">>,
                        <<16, "Pawn", "White">>, <<17, "Pawn", "White">>,
                        <<10, "Pawn", "White">>, <<46, "Pawn", "White">>,
                        <<55, "Pawn", "White">>, <<63, "King", "Black">>,
                        <<24, "Knight", "Black">>}),
               "White", {}, NoSquare)

\* White to move: Kh1 and a pawn on e2 against Kh8 and a pawn on a7.
PawnEndingPosition ==
    MkPosition(BoardOf({<<7, "King", "White">>, <<12, "Pawn", "White">>,
                        <<63, "King", "Black">>, <<48, "Pawn", "Black">>}),
               "White", {}, NoSquare)

SearchPositions ==
    {PawnCheckPosition, WhitePawnCheckPosition, OnlyDoublePushPosition, StalematePosition,
     DiscoveredCheckPosition, PawnEndingPosition}

\* The handicap of the side to move.
SearchDrawbacks == {"None", "PawnPushOneOnly"}

\* The game states a search is started from: the side to move is the
\* board's, no per-turn outcome is pending, the fingerprint is current.
SearchGameStates ==
    {LET gs == MkGameState(pos, pos.turn, "Ongoing",
                           IF pos.turn = "White" THEN d ELSE "None",
                           IF pos.turn = "Black" THEN d ELSE "None",
                           NoOutcome, {}, FALSE)
     IN [gs EXCEPT !.zobrist_hash = calculate_zobrist_hash(gs)] :
       pos \in SearchPositions, d \in SearchDrawbacks}

\* A time limit of zero and one of three seconds, without simulation; and
\* three seconds with two plies of simulation under the quietness test, the
\* iteration limit one lower.
SearchSettings ==
    {MkAiSettings(n, t, 0, FALSE, 1) : n \in {0, MaxIterations}, t \in {0, 3000}}
      \cup {MkAiSettings(n, 3000, 2, TRUE, 1) : n \in {0, MaxIterations - 1}}

\* The searches run: every game state under every setting, but simulation
\* only on the positions of kings and pawns, and on the pawn ending only
\* the searches with no iteration.
SearchInputs ==
    {in \in SearchGameStates \X SearchSettings :
       /\ in[2].depth_limit = 0 \/ in[1].board # DiscoveredCheckPosition
       /\ in[2].iteration_limit = 0 \/ in[1].board # PawnEndingPosition}

SearchInit ==
    /\ srch \in {[SrchIdle EXCEPT !.game_state = in[1], !.settings = in[2],
                                 !.iterations = in[2].iteration_limit,
                                 !.elapsed_reached_limit = (in[2].time_limit_ms = 0),
                                 !.context = from_game_state(in[1], in[2])] :
                   in \in SearchInputs}
    /\ SrchRestIdle
    /\ pc = "input"

\* find_best_move_mcts runs to its return.
HeuristicSearch ==
    /\ pc = "input"
    /\ \E m \in find_best_move_mcts(srch.context) :
          srch' = [srch EXCEPT !.algorithm = "heuristic", !.result = m]
    /\ pc' = "returned"
    /\ UNCHANGED SrchRest

\* find_best_move_mcts_monte_carlo up to the start of its loop.
MonteCarloStart ==
    /\ pc = "input"
    /\ LET root == expand(MCTSNode_new(srch.context.board, NoMove,
                                       srch.context.current_hash))
       IN IF root.unexplored_moves = <<>>
          THEN /\ srch' = [srch EXCEPT !.algorithm = "monte_carlo", !.root = root,
                                       !.result = NoMove]
               /\ pc' = "returned"
          ELSE IF Len(root.unexplored_moves) = 1
          THEN /\ srch' = [srch EXCEPT !.algorithm = "monte_carlo", !.root = root,
                                       !.result = root.unexplored_moves[1]]
               /\ pc' = "returned"
          ELSE /\ srch' = [srch EXCEPT !.algorithm = "monte_carlo", !.root = root]
               /\ pc' = "loop"
    /\ UNCHANGED SrchRest

\* A time check that never finds the limit reached.
time_limit_reached_Never(s) == FALSE

\* The time check at the top of the loop body (mcts.rs:374).
time_limit_reached(s) == s.elapsed_reached_limit

\* The clock passes the time limit while the loop runs.  A limit of zero
\* is reached from the start.
ClockReachesLimit ==
    /\ pc = "loop"
    /\ ~srch.elapsed_reached_limit
    /\ srch' = [srch EXCEPT !.elapsed_reached_limit = TRUE]
    /\ pc' = "loop"
    /\ UNCHANGED SrchRest

\* One pass of the loop body: selection, expansion, simulation,
\* backpropagation.
MonteCarloIterate ==
    /\ pc = "loop"
    /\ srch.completed_iterations < srch.iterations
    /\ ~time_limit_reached(srch)
    /\ \E selected \in selection(srch.root) :
       \E expanded \in expansion(srch.root, selected, srch.context) :
       \E playout \in playouts(NodeAt(expanded.root, expanded.current_path).position,
                               srch.context) :
          srch' = [srch EXCEPT
                     !.root = backpropagate(expanded.root, expanded.current_path,
                                            playout.score),
                     !.paths = Append(@, expanded.current_path),
                     !.selected = [path |-> selected,
                                   unexplored_moves |->
                                       Len(NodeAt(srch.root, selected).unexplored_moves),
                                   children |-> Len(NodeAt(srch.root, selected).children)],
                     !.playout = playout,
                     !.completed_iterations = @ + 1]
    /\ pc' = "loop"
    /\ UNCHANGED SrchRest

\* The time check at the top of the loop body finds the limit reached.
MonteCarloTimeLimit ==
    /\ pc = "loop"
    /\ srch.completed_iterations < srch.iterations
    /\ time_limit_reached(srch)
    /\ pc' = "finish"
    /\ UNCHANGED <<srch, SrchRest>>

\* The loop is over: choose the move to return.
MonteCarloFinish ==
    /\ \/ pc = "finish"
       \/ pc = "loop" /\ srch.completed_iterations = srch.iterations
    /\ \E m \in final_selection(srch.root) : srch' = [srch EXCEPT !.result = m]
    /\ pc' = "returned"
    /\ UNCHANGED SrchRest

SearchNext ==
    \/ HeuristicSearch
    \/ MonteCarloStart
    \/ ClockReachesLimit
    \/ MonteCarloIterate
    \/ MonteCarloTimeLimit
    \/ MonteCarloFinish

SpecSearch == SearchInit /\ [][SearchNext]_vars

Returned(algorithm) == pc = "returned" /\ srch.algorithm = algorithm

\* C1: when the side to move has a legal move its handicap allows, the move
\* find_best_move_mcts returns is one of those moves.
C1_HeuristicMoveAllowed ==
    (Returned("heuristic") /\ allowed_moves(srch.game_state) # {})
        => srch.result \in allowed_moves(srch.game_state)

\* C2: either search returns None exactly when the side to move has no
\* legal move its handicap allows.
C2_NoneIffNoAllowedMove ==
    pc = "returned" =>
        (srch.result = NoMove <=> allowed_moves(srch.game_state) = {})

IsPrefix(p, q) == Len(p) <= Len(q) /\ SubSeq(q, 1, Len(p)) = p

\* The paths from `node` to every node of its tree.
RECURSIVE NodePaths(_)
NodePaths(node) ==
    {<<>>} \cup UNION {{<<i>> \o p : p \in NodePaths(node.children[i])} :
                         i \in 1..Len(node.children)}

\* The completed iterations whose path goes through the node at path p.
IterationsThrough(p) == {i \in 1..Len(srch.paths) : IsPrefix(p, srch.paths[i])}

\* C3: in find_best_move_mcts_monte_carlo the visit count of every node of
\* the tree is the number of completed iterations whose path contains the
\* node, and the root's visit count is the number of completed iterations.
C3_VisitsCountIterations ==
    srch.algorithm = "monte_carlo" =>
        /\ srch.root.visits = srch.completed_iterations
        /\ Len(srch.paths) = srch.completed_iterations
        /\ \A p \in NodePaths(srch.root) :
              NodeAt(srch.root, p).visits = Cardinality(IterationsThrough(p))

\* Four iterations are complete, the last went through a child chosen by
\* best_child and added a grandchild: the child has two visits, the
\* grandchild one, the root four.
C3_Witness ==
    /\ srch.algorithm = "monte_carlo"
    /\ srch.completed_iterations = 4
    /\ srch.root.visits = 4
    /\ Len(srch.paths[4]) = 2
    /\ NodeAt(srch.root, SubSeq(srch.paths[4], 1, 1)).visits = 2
    /\ NodeAt(srch.root, srch.paths[4]).visits = 1

\* What is left of the search: the iterations not yet run, the clock not
\* yet at the limit, the steps to the return.
LoopMeasure ==
    3 * (srch.iterations - srch.completed_iterations)
      + (IF srch.elapsed_reached_limit THEN 0 ELSE 1)
      + (CASE pc = "loop" -> 2 [] pc = "finish" -> 1 [] OTHER -> 0)

\* C11: find_best_move_mcts_monte_carlo completes at most `iterations`
\* iterations and starts no iteration once the elapsed time has reached the
\* time limit; every step of its loop brings it nearer to the return (the
\* measure is a natural number and falls), so it terminates; and when the
\* position has a legal move it returns one of them, never None.
C11_TerminatesWithinBudgets ==
    /\ [](srch.algorithm = "monte_carlo" =>
             /\ srch.completed_iterations <= srch.iterations
             /\ LoopMeasure >= 0)
    /\ [][srch.completed_iterations' > srch.completed_iterations =>
             ~srch.elapsed_reached_limit]_vars
    /\ [][(pc = "loop" \/ pc = "finish") => LoopMeasure' < LoopMeasure]_vars
    /\ []((Returned("monte_carlo") /\ legal_moves(srch.context.board) # {}) =>
             srch.result \in legal_moves(srch.context.board))

\* The time limit was reached after some, not all, of the iterations: the
\* loop was left and the move of a root child returned.
C11_Witness ==
    /\ Returned("monte_carlo")
    /\ srch.elapsed_reached_limit
    /\ srch.completed_iterations > 1
    /\ srch.completed_iterations < srch.iterations
    /\ srch.root.children # <<>>
    /\ srch.result # NoMove

\* The search has run the loop body at least once: srch.selected and
\* srch.playout describe its latest pass.
Iterated == srch.algorithm = "monte_carlo" /\ srch.completed_iterations > 0

\* C16: when the root has a child at the end of the tree search, the move
\* returned is the move of a root child whose visit count is the largest
\* among the root's children.
C16_RobustChild ==
    (Returned("monte_carlo") /\ srch.root.children # <<>>) =>
        \E i \in 1..Len(srch.root.children) :
            /\ srch.root.children[i].move_made = srch.result
            /\ \A j \in 1..Len(srch.root.children) :
                  srch.root.children[j].visits <= srch.root.children[i].visits

\* C17: the selection phase of every iteration ends at a node that has
\* unexpanded moves or has no children; through a fully expanded node with
\* children it descends, at any depth.
C17_SelectionDescends ==
    Iterated => (srch.selected.unexplored_moves > 0 \/ srch.selected.children = 0)

\* C18: with a quiescence extension configured, a simulation that stops
\* after exactly `depth` plies stops at a terminal or a quiet position; at
\* a position that is neither it plays on.
C18_QuiescenceExtension ==
    (Iterated /\ srch.context.quiescence_depth > 0
       /\ srch.playout.plies = srch.context.depth
       /\ srch.playout.outcome = "None" /\ srch.playout.has_moves)
      => srch.playout.quiet

\* C19: a simulation stops before `depth` plies only at a position that is
\* terminal or has no legal move.
C19_PlaysToDepthLimit ==
    (Iterated /\ srch.playout.plies < srch.context.depth)
      => (srch.playout.outcome # "None" \/ ~srch.playout.has_moves)

\* C20: a simulation scores 1 / 0.5 / 0 for a won / drawn / lost final
\* position and (balance + 40) / 80 clamped into [0, 1] for any other,
\* balance being the root mover's material minus the opponent's.
C20_PlayoutScore ==
    Iterated =>
        srch.playout.score =
            (IF srch.playout.outcome = "Draw" THEN DRAW_SCORE
             ELSE IF srch.playout.outcome = srch.context.player_turn THEN WIN_SCORE
             ELSE IF srch.playout.outcome # "None" THEN LOSE_SCORE
             ELSE Min(Max(srch.playout.balance + 40, 0), 80))

\* The terms of a move's score other than the evaluation of the position
\* the move leads to.
other_terms(board_copy, m, in_check) ==
    move_score(board_copy, m, in_check)
      - evaluate_position_with_pst(play_unchecked(board_copy, m))

\* C21: of two candidate moves equal in every other term, the one that
\* leaves the opponent the lower evaluation has the higher score.
C21_ScoreNegatesEvaluation ==
    Returned("heuristic") =>
        LET board_copy == srch.context.board
            in_check == is_check(board_copy)
        IN \A a, b \in legal_moves(board_copy) :
              (/\ other_terms(board_copy, a, in_check) = other_terms(board_copy, b, in_check)
               /\ evaluate_position_with_pst(play_unchecked(board_copy, a))
                    < evaluate_position_with_pst(play_unchecked(board_copy, b)))
                => move_score(board_copy, a, in_check) > move_score(board_copy, b, in_check)

\* The root's move list as root.expand computes it at the start.
root_moves == legal_moves(srch.context.board)

\* The moves of the root's children.
child_moves(root) == {root.children[i].move_made : i \in 1..Len(root.children)}

\* C22: with a legal move at the root, find_best_move_mcts_monte_carlo
\* returns a move of the root's initial list under every budget: the only
\* move when there is one, a root child's move when children exist, else
\* one of the unexplored root moves.
C22_ReturnsRootMove ==
    (Returned("monte_carlo") /\ root_moves # {}) =>
        /\ srch.result \in root_moves
        /\ Cardinality(root_moves) = 1 => root_moves = {srch.result}
        /\ (Cardinality(root_moves) > 1 /\ srch.root.children # <<>>)
             => srch.result \in child_moves(srch.root)
        /\ (Cardinality(root_moves) > 1 /\ srch.root.children = <<>>)
             => srch.result \in SeqToSet(srch.root.unexplored_moves)

\* A search with an iteration budget of zero on a root with several moves
\* has returned one of them.
C22_Witness ==
    /\ Returned("monte_carlo")
    /\ srch.iterations = 0
    /\ Cardinality(root_moves) > 1
    /\ srch.root.children = <<>>
    /\ srch.result \in root_moves

\* The search is at an iteration boundary or past the loop.
AfterStart == srch.algorithm = "monte_carlo" /\ pc \in {"loop", "finish", "returned"}

\* C23: at every iteration boundary the moves of the root's children and
\* the root's unexplored moves are disjoint and together are the
\* rule-filtered legal set of the root position.
C23_RootMovesPartition ==
    AfterStart =>
        /\ child_moves(srch.root) \cap SeqToSet(srch.root.unexplored_moves) = {}
        /\ child_moves(srch.root) \cup SeqToSet(srch.root.unexplored_moves)
             = allowed_moves(srch.game_state)

----------------------------------------------------------------------------
(* SpecGame: the host's turn loop from the start of a game.  White is the  *)
(* player at the board, Black the search task.                             *)

\* Moves applied before the inputs stop.
MaxPlies == 2

\* The squares the player clicks: g1, e2, e3, f3, e4.
ClickSquares == {6, 12, 20, 21, 28}

\* The handicaps of White and Black in the configuration.
GameDrawbacks ==
    {<<"None", "None">>, <<"BlockRandomFile", "None">>, <<"None", "BlockRandomFile">>,
     <<"PawnPushOneOnly", "NoCastling">>}

\* The default AiSettings of the configuration (config.rs).
GameSettings == MkAiSettings(10000000, 3000, 24, TRUE, 20)

GameInit ==
    /\ game \in {[GameIdle EXCEPT !.game_state = init_game_state(d[1], d[2]),
                                   !.max_plies = MaxPlies] :
                   d \in GameDrawbacks}
    /\ GameRestIdle
    /\ pc = "running"

\* The systems of the Update schedule that run in a frame: their run
\* conditions are read from the turn state, which changes between frames.
RunnableSystems(turn_state) ==
    (IF turn_state = "AiTurn" THEN {"request_ai_move", "check_ai_move_result"} ELSE {})
      \cup (IF turn_state \in {"PlayerTurn", "AiTurn"} THEN {"apply_move"} ELSE {})
      \cup {"calculate_and_update_zobrist_hash"}

\* A system runs once in a frame.
Runs(system) == pc = "running" /\ system \notin game.ran

\* handle_piece_selection on a click: a click on the destination of a
\* displayed move sends that move, any other click replaces the selection.
\* A frame without a click leaves everything as it is.
handle_piece_selection(square) ==
    /\ Runs("handle_piece_selection")
    /\ game.turn_state = "PlayerTurn"
    /\ game.plies + Len(game.events) < game.max_plies
    /\ LET gs == game.game_state
           piece == gs.board.board[square]
           ran == game.ran \cup {"handle_piece_selection"}
       IN IF \E m \in game.valid_moves : m.to = square
          THEN \E m \in {v \in game.valid_moves : v.to = square} :
                  game' = [game EXCEPT !.events = Append(@, m), !.valid_moves = {},
                                       !.ran = ran]
          ELSE game' = [game EXCEPT !.ran = ran, !.valid_moves =
                          IF piece.role # "None" /\ piece.color = gs.current_player_turn
                          THEN {m \in legal_moves(gs.board) : m.from = square}
                          ELSE {}]
    /\ UNCHANGED <<GameRest, pc>>

PlayerClick == \E square \in ClickSquares : handle_piece_selection(square)

\* A query that finds an entity whatever there is.
q_ai_task_is_empty_Always(tasks) == TRUE

\* q_ai_task.is_empty() in request_ai_move
q_ai_task_is_empty(tasks) == tasks = <<>>

\* request_ai_move: with no task entity and a legal move on the board it
\* starts the search on a copy of the game state and queues the spawn of
\* the entity.  The inputs stop after max_plies moves: no further search is
\* started then.
request_ai_move ==
    /\ Runs("request_ai_move")
    /\ game.turn_state = "AiTurn"
    /\ LET spawning == q_ai_task_is_empty(game.tasks)
                       /\ legal_moves(game.game_state.board) # {}
           task == [finished |-> FALSE,
                    context |-> from_game_state(game.game_state, GameSettings),
                    result |-> NoMove]
       IN /\ spawning => game.plies + Len(game.events) < game.max_plies
          /\ game' = [game EXCEPT
                        !.commands = IF spawning THEN Append(@, <<"spawn", task>>) ELSE @,
                        !.ran = @ \cup {"request_ai_move"}]
    /\ UNCHANGED <<GameRest, pc>>

\* A task runs find_best_move_mcts to its end.  The systems see it only
\* through the poll, so the end is placed between two frames.
AiTaskCompletes ==
    /\ pc = "running"
    /\ game.ran = {}
    /\ \E i \in 1..Len(game.tasks) :
          /\ ~game.tasks[i].finished
          /\ \E m \in find_best_move_mcts(game.tasks[i].context) :
                game' = [game EXCEPT !.tasks[i].finished = TRUE, !.tasks[i].result = m]
    /\ UNCHANGED <<GameRest, pc>>

\* check_ai_move_result: the first task found finished is taken, its move
\* validated and sent or replaced, and the despawn of its entity queued.
check_ai_move_result ==
    /\ Runs("check_ai_move_result")
    /\ game.turn_state = "AiTurn"
    /\ LET finished == {i \in 1..Len(game.tasks) : game.tasks[i].finished}
           entity == CHOOSE i \in finished : \A k \in finished : i <= k
           gs == game.game_state
           ai_move == game.tasks[entity].result
           done(sent) ==
               [game EXCEPT
                  !.events = IF sent # NoMove THEN Append(@, sent) ELSE @,
                  !.next_state = IF sent = NoMove THEN "PlayerTurn" ELSE @,
                  !.polled = [happened |-> TRUE, result |-> ai_move, sent |-> sent,
                              board |-> gs.board,
                              searched |-> game.tasks[entity].context.board],
                  !.commands = Append(@, <<"despawn", entity>>),
                  !.ran = @ \cup {"check_ai_move_result"}]
       IN IF finished = {}
          THEN game' = [game EXCEPT !.ran = @ \cup {"check_ai_move_result"}]
          ELSE IF ai_move # NoMove /\ validate_ai_move(gs, ai_move)
          THEN game' = done(ai_move)
          ELSE \E fallback_move \in get_fallback_move(gs) : game' = done(fallback_move)
    /\ UNCHANGED <<GameRest, pc>>

\* apply_move reads the pending events.
ApplyMove ==
    /\ Runs("apply_move")
    /\ game.turn_state \in {"PlayerTurn", "AiTurn"}
    /\ LET st == apply_move([game_state |-> game.game_state, next_state |-> game.next_state,
                             filter_call |-> game.filter_call, applied |-> game.plies],
                            game.turn_state, game.events)
       IN game' = [game EXCEPT !.game_state = st.game_state,
                               !.next_state = st.next_state,
                               !.filter_call = st.filter_call,
                               !.plies = st.applied,
                               !.events = <<>>,
                               !.ran = @ \cup {"apply_move"}]
    /\ UNCHANGED <<GameRest, pc>>

\* calculate_and_update_zobrist_hash, ordered after apply_move
UpdateZobristHash ==
    /\ Runs("calculate_and_update_zobrist_hash")
    /\ "apply_move" \in RunnableSystems(game.turn_state) => "apply_move" \in game.ran
    /\ game' = [game EXCEPT
                  !.game_state.zobrist_hash = calculate_zobrist_hash(game.game_state),
                  !.ran = @ \cup {"calculate_and_update_zobrist_hash"}]
    /\ UNCHANGED <<GameRest, pc>>

\* The deferred commands of a frame, applied to the task entities.
apply_deferred(tasks, commands) ==
    LET despawned == {commands[k][2] : k \in {n \in 1..Len(commands) :
                                                commands[n][1] = "despawn"}}
        spawned == SelectSeq(commands, LAMBDA c : c[1] = "spawn")
        kept == SelectSeq([i \in 1..Len(tasks) |->
                             IF i \in despawned THEN <<>> ELSE <<tasks[i]>>],
                          LAMBDA t : t # <<>>)
    IN [i \in 1..Len(kept) |-> kept[i][1]]
         \o [i \in 1..Len(spawned) |-> spawned[i][2]]

\* The end of a frame and the start of the next: every system whose run
\* condition held has run, the commands are applied, and the state
\* transition puts the requested turn state in place.
EndFrame ==
    /\ pc = "running"
    /\ RunnableSystems(game.turn_state) \subseteq game.ran
    /\ game' = [game EXCEPT
                  !.tasks = apply_deferred(game.tasks, game.commands),
                  !.commands = <<>>,
                  !.turn_state = IF game.next_state # "None" THEN game.next_state ELSE @,
                  !.next_state = "None",
                  !.ran = {}]
    /\ UNCHANGED <<GameRest, pc>>

GameNext ==
    \/ PlayerClick
    \/ request_ai_move
    \/ AiTaskCompletes
    \/ check_ai_move_result
    \/ ApplyMove
    \/ UpdateZobristHash
    \/ EndFrame

SpecGame == GameInit /\ [][GameNext]_vars

----------------------------------------------------------------------------
(* SpecEndgame: the host's systems from late positions of a game *)

\* Moves of a game continued from a late position.
MaxEndgamePlies == 3

\* The late game states: the positions of the search with the side to
\* move handicapped or not.
EndgameGameStates == SearchGameStates

\* A frame starts with no task entity and no pending event; the turn
\* state is that of the side to move.
EndgameInit ==
    /\ game \in {[GameIdle EXCEPT !.game_state = gs,
                                   !.turn_state = IF gs.current_player_turn = "White"
                                                  THEN "PlayerTurn" ELSE "AiTurn",
                                   !.max_plies = MaxEndgamePlies] :
                   gs \in EndgameGameStates}
    /\ GameRestIdle
    /\ pc = "running"

SpecEndgame == EndgameInit /\ [][GameNext]_vars

\* The frames follow one another for as long as the application runs, and
\* a search that was started comes to its end.
SpecEndgameFair == SpecEndgame /\ WF_vars(GameNext) /\ SF_vars(AiTaskCompletes)

\* The start of an AI turn on the pawn position, Black handicapped or not.
AiTurnInit ==
    /\ EndgameInit
    /\ game.game_state.board = PawnCheckPosition

SpecAiTurnFair ==
    AiTurnInit /\ [][GameNext]_vars /\ WF_vars(GameNext) /\ SF_vars(AiTaskCompletes)

\* The spawn commands queued in the frame.
PendingSpawns == {n \in 1..Len(game.commands) : game.commands[n][1] = "spawn"}

\* C12: at most one AiThinking entity exists at any time, and a spawn is
\* queued only in a frame in which no entity exists, whatever the order of
\* request_ai_move and check_ai_move_result in the frame.
C12_OneTaskAtATime ==
    /\ Len(game.tasks) <= 1
    /\ PendingSpawns # {} => (game.tasks = <<>> /\ Cardinality(PendingSpawns) = 1)

\* A first task was polled and removed, a second one exists, and both
\* systems have run in the frame without queueing a command.
C12_Witness ==
    /\ game.polled.happened
    /\ Len(game.tasks) = 1
    /\ game.commands = <<>>
    /\ {"request_ai_move", "check_ai_move_result"} \subseteq game.ran

\* C13: the move check_ai_move_result sends is legal on the board of the
\* moment of the poll; a result that fails validation is not sent but
\* replaced by a legal move, or by none when the board has none.
C13_SentMoveLegal ==
    game.polled.happened =>
        LET legal == legal_moves(game.polled.board)
        IN /\ game.polled.sent # NoMove => game.polled.sent \in legal
           /\ game.polled.sent = NoMove => legal = {}
           /\ game.polled.result \in legal => game.polled.sent = game.polled.result

\* A task returned a move that is not legal on the board of the poll, and
\* a legal move was sent in its place.
C13_Witness ==
    /\ game.polled.happened
    /\ game.polled.result # NoMove
    /\ game.polled.result \notin legal_moves(game.polled.board)
    /\ game.polled.sent \in legal_moves(game.polled.board)

\* The side to move has no move left after its handicap's filter.
NoMoveLeft ==
    /\ game.turn_state \in {"PlayerTurn", "AiTurn"}
    /\ allowed_moves(game.game_state) = {}

\* C14: when the side to move has no move left after its handicap's
\* filter, the turn state eventually becomes GameOver.
C14_NoMoveEndsGame == NoMoveLeft ~> (game.turn_state = "GameOver")

\* calculate_zobrist_hash of the game state a search context was copied
\* from: the context's board, side to move and handicaps.
context_fingerprint(context) ==
    calculate_zobrist_hash(
        MkGameState(context.board, context.player_turn, "Ongoing",
                    IF context.player_turn = "White" THEN context.player_drawback
                    ELSE context.opponent_drawback,
                    IF context.player_turn = "Black" THEN context.player_drawback
                    ELSE context.opponent_drawback,
                    NoOutcome, {}, FALSE))

\* C24: between frames the stored fingerprint is calculate_zobrist_hash of
\* the current game state, and the hash copied into a search context is
\* the fingerprint of the position the task searches.
C24_HashCurrent ==
    /\ game.ran = {} =>
          game.game_state.zobrist_hash = calculate_zobrist_hash(game.game_state)
    /\ \A i \in 1..Len(game.tasks) :
          game.tasks[i].context.current_hash = context_fingerprint(game.tasks[i].context)

\* It is the AI's turn, Black has a move its handicap allows, and the
\* inputs have not stopped.
AiCanMove ==
    /\ game.turn_state = "AiTurn"
    /\ game.game_state.current_player_turn = "Black"
    /\ allowed_moves(game.game_state) # {}
    /\ game.plies + Len(game.events) < game.max_plies

\* C25: while it is the AI's turn and the AI side has an allowed move, a
\* move of Black is eventually applied to the board, with or without a
\* handicap.
C25_AiTurnEnds == AiCanMove ~> (game.game_state.current_player_turn = "White")

\* C26: a search result taken by check_ai_move_result was computed from
\* the board that is current when it is taken.
C26_ResultFromCurrentBoard ==
    game.polled.happened => game.polled.searched = game.polled.board

\* C29: the side-to-move field of the game state is the side to move of
\* its board, at the start and after every applied or rejected move.
C29_TurnAgreesWithBoard ==
    game.game_state.current_player_turn = game.game_state.board.turn

\* White and Black have each had a move applied.
C29_Witness ==
    /\ game.plies = 2
    /\ game.game_state.current_player_turn = "White"
    /\ game.game_state.board.turn = "White"

\* The side to move is under a rule that needs a random outcome each turn.
TurnNeedsRng ==
    /\ game.game_state.status = "Ongoing"
    /\ needs_turn_rng(get_current_player_drawback_id(game.game_state))

\* C10: while the side to move is under a rule that needs per-turn
\* randomness, the game state holds an outcome in 0..N-1 for the turn, and
\* a filter call for such a rule is given an outcome in 0..N-1.
C10_OutcomeDrawnForTurn ==
    /\ TurnNeedsRng =>
          game.game_state.current_turn_rng_outcome \in
             0..(get_rng_outcomes(get_current_player_drawback_id(game.game_state)) - 1)
    /\ needs_turn_rng(game.filter_call.rule) =>
          game.filter_call.rng_outcome \in 0..(get_rng_outcomes(game.filter_call.rule) - 1)

----------------------------------------------------------------------------
(* SpecApply: one run of apply_move on the events of a frame *)

\* MakeMoveEvents read in one run.
MaxEvents == 2

\* The game states of a run: the pawn ending, White to move, and the pawn
\* position, Black to move, the mover handicapped or not.
ApplyGameStates ==
    {gs \in SearchGameStates : gs.board \in {PawnEndingPosition, PawnCheckPosition}}

\* The moves the events carry: the legal moves of the side to move and the
\* legal replies to them.
EventMoves(gs) ==
    legal_moves(gs.board)
      \cup UNION {legal_moves(play_unchecked(gs.board, m)) : m \in legal_moves(gs.board)}

\* The event sequences of a run.
EventSeqs(moves) == UNION {[1..n -> moves] : n \in 0..MaxEvents}

\* apply_move runs in PlayerTurn and AiTurn.  With Black to move the turn
\* state is AiTurn; with White to move it is PlayerTurn, or still AiTurn in
\* the frame after the AI's move was applied.
ApplyInputs ==
    {x \in ApplyGameStates \X {"PlayerTurn", "AiTurn"} :
       x[1].current_player_turn = "Black" => x[2] = "AiTurn"}

ApplyInit ==
    /\ apl \in UNION {{[AplIdle EXCEPT !.before = ApplyState(in[1]),
                                      !.current_state = in[2],
                                      !.events = events,
                                      !.after = ApplyState(in[1])] :
                         events \in EventSeqs(EventMoves(in[1]))} :
                      in \in ApplyInputs}
    /\ AplRestIdle
    /\ pc = "input"

\* apply_move reads the events.
ApplyEvents ==
    /\ pc = "input"
    /\ apl' = [apl EXCEPT !.after = apply_move(apl.before, apl.current_state, apl.events)]
    /\ pc' = "applied"
    /\ UNCHANGED AplRest

SpecApply == ApplyInit /\ [][ApplyEvents]_vars

\* The state after the first k events of the run.
after_events(k) == apply_move(apl.before, apl.current_state, SubSeq(apl.events, 1, k))

\* The turn state is that of the side to move.
MoverMatches(gs, current_state) ==
    \/ gs.current_player_turn = "White" /\ current_state = "PlayerTurn"
    \/ gs.current_player_turn = "Black" /\ current_state = "AiTurn"

\* C27: apply_move applies an event only when the turn state matches the
\* mover, and at most one event of a run: the events after the applied one
\* are ignored, whatever moves they carry.
C27_OneMovePerFrame ==
    pc = "applied" =>
        /\ apl.after.applied <= 1
        /\ apl.after.applied = 1 =>
              /\ MoverMatches(apl.before.game_state, apl.current_state)
              /\ \E k \in 1..Len(apl.events) :
                    /\ after_events(k - 1).applied = 0
                    /\ apl.after.game_state.board
                         = play_unchecked(apl.before.game_state.board, apl.events[k])
                    /\ apl.after.game_state = after_events(k).game_state
                    /\ apl.after.next_state = after_events(k).next_state

\* The first event was applied and the second, a legal reply of the other
\* side, was ignored.
C27_Witness ==
    /\ pc = "applied"
    /\ Len(apl.events) = 2
    /\ apl.after.applied = 1
    /\ apl.after.game_state.board = play_unchecked(apl.before.game_state.board, apl.events[1])
    /\ apl.events[2] \in allowed_moves(apl.after.game_state)

\* C28: an event that apply_move rejects leaves the board, the side to
\* move, the status and the requested turn state as they were before it.
C28_RejectedEventNoEffect ==
    (pc = "applied" /\ apl.events # <<>>) =>
        LET previous == after_events(Len(apl.events) - 1)
        IN apl.after.applied = previous.applied =>
              /\ apl.after.game_state = previous.game_state
              /\ apl.after.next_state = previous.next_state

\* A legal double push of a side under PawnPushOneOnly, sent in the mover's
\* turn state, was rejected.
C28_Witness ==
    /\ pc = "applied"
    /\ Len(apl.events) = 1
    /\ MoverMatches(apl.before.game_state, apl.current_state)
    /\ apl.events[1] \in legal_moves(apl.before.game_state.board)
    /\ apl.events[1] \notin allowed_moves(apl.before.game_state)
    /\ apl.after.applied = 0
    /\ apl.after.game_state = apl.before.game_state

=============================================================================
